---- MODULE Spec2Model ----
(***************************************************************************)
(* Replication engine of p2p-server-sync: vector clocks, the handlePut     *)
(* write pipeline, conflict resolution, gossip propagation, the processed  *)
(* message sweep, vector-clock synchronisation, pull based anti-entropy    *)
(* and node shutdown / restart over a durable store.                       *)
(***************************************************************************)
EXTENDS Integers, Sequences, FiniteSets, TLC

\* ------------------------------------------------------------------ bounds
MaxPuts == 2          \* local put() calls over a run
MaxDup == 1           \* duplicate deliveries the transport may make
MaxTicks == 3         \* steps of the wall clock
TickMs == 150000      \* wall-clock advance of one step (ms)
MaxRestarts == 1      \* close()/start() cycles over a run
MaxSyncs == 1         \* periodic vector-clock sync rounds over a run
MaxRuns == 1          \* anti-entropy runs over a run
MaxLimited == 1       \* messages the rate limiter may refuse over a run
MaxPutsRestart == 3   \* local put() calls over a run with a restart
MaxPutsSync == 1      \* local put() calls of each node over a run with clock syncs
MaxCounter == 2       \* largest counter of the clocks given to conflict resolution
configuredMaxVersions == 3  \* sync.maxVersions of the node whose history is studied
MaxPutsSequential == 12
MaxPutsRollback == 3    \* local put() calls in a run with causally ordered writes
MaxPayloadLen == 2      \* characters (bytes) in a payload given to encrypt
MaxPathLen == 3         \* characters in a path given to notifySubscribers     \* awaited local put() calls of one node to one path

\* ------------------------------------------------------- program constants
maxMessageAge == 300000
maxVersions == 10
backoffTime == 1000

Node == {"n1", "n2", "n3", "n4"}
Path == {"p", "q"}
Value == {"A", "B"}
Null == "null"

\* String.prototype.localeCompare on the node ids in use ("" sorts first).
IdRank(id) == CASE id = "" -> 0 [] id = "n1" -> 1 [] id = "n2" -> 2 [] id = "n3" -> 3
              [] id = "n4" -> 4
localeCompare(a, b) ==
  IF IdRank(a) < IdRank(b) THEN -1 ELSE IF IdRank(a) > IdRank(b) THEN 1 ELSE 0

Max(a, b) == IF a >= b THEN a ELSE b

\* ------------------------------------------------------------ VectorClock
\* A clock is a function from the node ids that are keys of `clock` to
\* their counters; a key that is absent reads as 0.
ClockGet(c, k) == IF k \in DOMAIN c THEN c[k] ELSE 0

\* new VectorClock(json): negative (invalid) counters are coerced to 0.
fromJSON(json) == [k \in DOMAIN json |-> IF json[k] >= 0 THEN json[k] ELSE 0]

increment(c, nodeId) ==
  [k \in DOMAIN c \cup {nodeId} |-> IF k = nodeId THEN ClockGet(c, k) + 1 ELSE c[k]]

mergeWrongMin(c, other) ==
  [k \in DOMAIN c \cup DOMAIN other |->
     IF ClockGet(c, k) <= ClockGet(other, k) THEN ClockGet(c, k) ELSE ClockGet(other, k)]

merge(c, other) ==
  [k \in DOMAIN c \cup DOMAIN other |-> Max(ClockGet(c, k), ClockGet(other, k))]

\* A comparison that looks only at the keys of this clock.
compareOwnKeys(c, other) ==
  LET lessThan == \E k \in DOMAIN c : c[k] < ClockGet(other, k)
      greaterThan == \E k \in DOMAIN c : c[k] > ClockGet(other, k)
  IN  IF lessThan /\ greaterThan THEN 0
      ELSE IF ~lessThan /\ ~greaterThan THEN 2
      ELSE IF lessThan THEN -1
      ELSE 1

\* -1 before, 0 concurrent, 1 after, 2 identical
compare(c, other) ==
  LET ids == DOMAIN c \cup DOMAIN other
      lessThan == \E k \in ids : ClockGet(c, k) < ClockGet(other, k)
      greaterThan == \E k \in ids : ClockGet(c, k) > ClockGet(other, k)
  IN  IF lessThan /\ greaterThan THEN 0
      ELSE IF ~lessThan /\ ~greaterThan THEN 2
      ELSE IF lessThan THEN -1
      ELSE 1

dominanceRelation(c, other) ==
  CASE compare(c, other) = 1 -> "dominates"
    [] compare(c, other) = -1 -> "dominated"
    [] compare(c, other) = 0 -> "concurrent"
    [] compare(c, other) = 2 -> "identical"

deterministicWinner(c, other, thisId, otherId) ==
  LET relation == dominanceRelation(c, other)
  IN  IF relation = "dominates" THEN "this"
      ELSE IF relation = "dominated" THEN "other"
      ELSE IF relation = "identical" THEN "identical"
      ELSE IF localeCompare(thisId, otherId) > 0 THEN "this" ELSE "other"

\* Pointwise order on clocks (absent key = 0).
ClockLeq(a, b) == \A k \in DOMAIN a \cup DOMAIN b : ClockGet(a, k) <= ClockGet(b, k)

\* ------------------------------------------------------- ConflictResolver
\* vectorDominance without the tiebreak: the local record is kept whenever
\* the remote one does not dominate.
vectorDominanceKeepsLocal(localData, remoteData) ==
  IF dominanceRelation(localData.vectorClock, remoteData.vectorClock) = "dominated"
    THEN remoteData ELSE localData

vectorDominance(localData, remoteData) ==
  LET relation == dominanceRelation(localData.vectorClock, remoteData.vectorClock)
  IN  IF relation = "dominates" \/ relation = "identical" THEN localData
      ELSE IF relation = "dominated" THEN remoteData
      ELSE IF deterministicWinner(localData.vectorClock, remoteData.vectorClock,
                                  localData.origin, remoteData.origin) = "this"
           THEN localData ELSE remoteData

resolveWithDeletion(localData, remoteData) ==
  LET relation == dominanceRelation(localData.vectorClock, remoteData.vectorClock)
  IN  IF localData.value = Null /\ remoteData.value = Null
        THEN vectorDominance(localData, remoteData)
      ELSE IF localData.value = Null
        THEN IF relation = "dominates" \/ relation = "concurrent"
               THEN localData ELSE remoteData
      ELSE IF relation = "dominated" \/ relation = "concurrent"
               THEN remoteData ELSE localData

\* ConflictResolver.resolve under the default strategy "vector-dominance".
resolve(localData, remoteData) ==
  IF localData.value = Null \/ remoteData.value = Null
    THEN resolveWithDeletion(localData, remoteData)
    ELSE vectorDominance(localData, remoteData)

\* The strategy names that select vectorDominance: the default and its
\* legacy alias.
DominanceStrategies == {"vector-dominance", "last-write-wins"}

\* ConflictResolver.resolve with the strategy getStrategyForPath returns;
\* both names, and the fallback for an unknown one, reach vectorDominance.
resolveUnder(strategy, localData, remoteData) ==
  IF localData.value = Null \/ remoteData.value = Null
    THEN resolveWithDeletion(localData, remoteData)
  ELSE IF strategy \in DominanceStrategies
    THEN vectorDominance(localData, remoteData)
  ELSE vectorDominance(localData, remoteData)


\* ---------------------------------------------------------- VersionManager
\* Comparator of history.sort: < 0 when a sorts before b.
historyOrder(a, b) ==
  LET relation == dominanceRelation(fromJSON(a.vectorClock), fromJSON(b.vectorClock))
  IN  IF relation = "dominates" THEN -1
      ELSE IF relation = "dominated" THEN 1
      ELSE localeCompare(a.origin, b.origin)

\* history.sort(comparator) as the runtime performs it on an array of
\* fewer than 64 elements: the initial run is found (and reversed when it
\* is strictly descending), then every later element is put into place by
\* binary insertion.  For a comparator that is a consistent order this is
\* any stable sort; the comparator above is not one (dominance is partial,
\* the tiebreak by origin is not transitive with it), and then the result
\* is the one these steps give.
RECURSIVE runEnd(_, _, _)
runEnd(array, idx, isDescending) ==
  IF idx > Len(array) THEN Len(array)
  ELSE LET order == historyOrder(array[idx], array[idx - 1])
       IN  IF (isDescending /\ order >= 0) \/ (~isDescending /\ order < 0)
             THEN idx - 1
             ELSE runEnd(array, idx + 1, isDescending)

Reverse(seq) == [i \in 1 .. Len(seq) |-> seq[Len(seq) + 1 - i]]

CountAndMakeRun(array) ==
  LET isDescending == historyOrder(array[2], array[1]) < 0
      runLength == runEnd(array, 3, isDescending)
  IN  [runLength |-> runLength,
       array |-> IF isDescending
                   THEN Reverse(SubSeq(array, 1, runLength)) \o
                        SubSeq(array, runLength + 1, Len(array))
                   ELSE array]

\* The insertion point of pivot among the first `right` elements
\* (0-based bounds, as in the runtime).
RECURSIVE binarySearch(_, _, _, _)
binarySearch(array, pivot, left, right) ==
  IF left >= right THEN left
  ELSE LET mid == left + ((right - left) \div 2)
       IN  IF historyOrder(pivot, array[mid + 1]) < 0
             THEN binarySearch(array, pivot, left, mid)
             ELSE binarySearch(array, pivot, mid + 1, right)

RECURSIVE BinaryInsertionSort(_, _)
BinaryInsertionSort(array, start) ==
  IF start >= Len(array) THEN array
  ELSE LET pivot == array[start + 1]
           left == binarySearch(array, pivot, 0, start)
       IN  BinaryInsertionSort(SubSeq(array, 1, left) \o <<pivot>> \o
                               SubSeq(array, left + 1, start) \o
                               SubSeq(array, start + 2, Len(array)),
                               start + 1)

sort(array) ==
  IF Len(array) < 2 THEN array
  ELSE LET run == CountAndMakeRun(array)
       IN  BinaryInsertionSort(run.array, run.runLength)

\* addToVersionHistory with the slice taken from the wrong end: the oldest
\* entries are kept.
addToVersionHistoryKeepsOldest(history, data, limit) ==
  LET sorted == sort(Append(history, [vectorClock |-> data.vectorClock,
                                      value |-> data.value,
                                      origin |-> data.origin]))
  IN  IF Len(sorted) > limit
        THEN SubSeq(sorted, Len(sorted) - limit + 1, Len(sorted)) ELSE sorted

\* push, sort, slice to the node's maxVersions (`limit`).
addToVersionHistory(history, data, limit) ==
  LET sorted == sort(Append(history, [vectorClock |-> data.vectorClock,
                                      value |-> data.value,
                                      origin |-> data.origin]))
  IN  IF Len(sorted) > limit THEN SubSeq(sorted, 1, limit) ELSE sorted

\* ------------------------------------------------------------------ state
VARIABLES
  links,              \* configured peer links (pairs of node ids)
  masterKey,          \* per node: security.masterKey, "none" when security is disabled
  lifecycle,          \* per node: "up", "closing" (close() began), "down"
  vectorClock,        \* per node: SyncManager.vectorClock
  knownNodeIds,       \* per node: SyncManager.knownNodeIds
  messageTimestamps,  \* per node: msgId -> time marked; its keys are processedMessages
  db,                 \* per node: the durable store, path -> record
  versionHistory,     \* per node: path -> history
  notifications,      \* per node: notifySubscribers calls, in order
  storeQueue,         \* per node: store operations of suspended handlePut calls, in issue order
  network,            \* messages emitted and not yet delivered
  now,                \* wall clock (ms)
  antiEntropy,        \* per node: ExecutionManager state and the peers of the current run
  putLog,             \* the local put() calls made: msgId -> [origin, path, value]
  drops,              \* put deliveries handlePut returned from early: [node, msgId, reason]
  apiReturns,         \* put/del calls that ended without a store write: [node, op, ...]
  evaluated,          \* the conflict-resolution call under study: its inputs, then its result
  used                \* counters of the bounded environment choices

vars == <<links, masterKey, apiReturns, evaluated, lifecycle, vectorClock, knownNodeIds, messageTimestamps, db,
          versionHistory, notifications, storeQueue, network, now, antiEntropy,
          putLog, drops, used>>

processedMessages(n) == DOMAIN messageTimestamps[n]

isShuttingDown(n) == lifecycle[n] # "up"

\* SocketManager.sockets of a node: the configured peers that are up.
sockets(n) ==
  IF lifecycle[n] = "up"
    THEN {m \in Node : m # n /\ <<n, m>> \in links /\ lifecycle[m] = "up"}
    ELSE {}

Mesh(S) == {<<a, b>> \in S \X S : a # b}
Chain == {<<"n1", "n2">>, <<"n2", "n1">>, <<"n2", "n3">>, <<"n3", "n2">>}

EmptyFn == [x \in {} |-> 0]

\* No conflict-resolution call is under study.
NoCall == [fn |-> "none"]

\* State after construction of every node (SyncManager.constructor).
InitNodes ==
  /\ masterKey = [n \in Node |-> "none"]
  /\ lifecycle = [n \in Node |-> "up"]
  /\ vectorClock = [n \in Node |-> increment(EmptyFn, n)]
  /\ knownNodeIds = [n \in Node |-> {n}]
  /\ messageTimestamps = [n \in Node |-> EmptyFn]
  /\ db = [n \in Node |-> EmptyFn]
  /\ versionHistory = [n \in Node |-> [p \in Path |-> <<>>]]
  /\ notifications = [n \in Node |-> <<>>]
  /\ storeQueue = [n \in Node |-> <<>>]
  /\ network = {}
  /\ now = TickMs
  /\ antiEntropy = [n \in Node |-> [isRunning |-> FALSE, lastRunTime |-> 0, peers |-> {}]]
  /\ putLog = EmptyFn
  /\ drops = {}
  /\ apiReturns = {}
  /\ evaluated = NoCall
  /\ used = [puts |-> 0, dups |-> 0, ticks |-> 0, restarts |-> 0, syncs |-> 0, runs |-> 0,
             limited |-> 0]


\* --------------------------------------------------------------- security
securityEnabled(n) == masterKey[n] # "none"

\* SecurityManager.encrypt: the envelope {encrypted: true, ciphertext, ...};
\* the key stands for the AES-GCM key derived from the master key.
encrypt(key, data) == [encrypted |-> TRUE, key |-> key, ciphertext |-> data]

\* ServerSecurity.encryptData as _prepareDataForBroadcast calls it.
encryptData(n, data) == IF securityEnabled(n) THEN encrypt(masterKey[n], data) ELSE data

\* data.encrypted of a received payload.
Encrypted(data) == "encrypted" \in DOMAIN data

\* What a handler goes on with: the payload as it is when it is not
\* marked encrypted, the plaintext when the node's key opens the envelope;
\* without security or with another key decryptData throws and the
\* handler returns.
Readable(n, data) == Encrypted(data) => securityEnabled(n) /\ data.key = masterKey[n]

decryptData(n, data) == IF Encrypted(data) THEN data.ciphertext ELSE data

\* ------------------------------------------------------- MessageProcessor
NewDataLosesValue(data) ==
  [value |-> Null, origin |-> data.origin, vectorClock |-> fromJSON(data.vectorClock)]

\* Record a handlePut call builds from the message (newData).
NewData(data) ==
  [value |-> data.value, origin |-> data.origin, vectorClock |-> fromJSON(data.vectorClock)]

\* The checks at the head of handlePut: TRUE when the message is dropped.
AlreadyProcessedNever(n, data) == FALSE

AlreadyProcessed(n, data) == data.msgId \in processedMessages(n)

AlreadyVisitedNever(n, data) == FALSE

AlreadyVisited(n, data) == n \in data.visitedServers

\* A handlePut that is stopped by visitedServers only.
DroppedWhenVisited(n, data) == isShuttingDown(n) \/ AlreadyVisited(n, data)

Dropped(n, data) ==
  isShuttingDown(n) \/ AlreadyProcessed(n, data) \/ AlreadyVisited(n, data)

\* The calls of handlePut a loop makes one after the other (await): the
\* ones that return early are skipped; what is left starts with the call
\* that gets past the entry checks.
RECURSIVE Entering(_, _)
Entering(n, calls) ==
  IF calls = <<>> \/ isShuttingDown(n) THEN <<>>
  ELSE IF Dropped(n, Head(calls)) THEN Entering(n, Tail(calls))
  ELSE calls

\* handlePut up to its first suspension (await db.get): the message is
\* marked as processed and the call waits on the store; `queue` is what
\* the store is still serving, the calls after the first wait their turn.
StartPuts(n, queue, calls) ==
  LET todo == Entering(n, calls)
  IN  /\ messageTimestamps' =
           IF todo = <<>> THEN messageTimestamps
           ELSE [messageTimestamps EXCEPT ![n] =
                   [id \in DOMAIN @ \cup {Head(todo).msgId} |->
                      IF id = Head(todo).msgId THEN now ELSE @[id]]]
      /\ storeQueue' =
           [storeQueue EXCEPT ![n] =
              IF todo = <<>> THEN queue
              ELSE Append(queue, [op |-> "get", data |-> Head(todo), rest |-> Tail(todo)])]

PutBegin(n, data) == StartPuts(n, storeQueue[n], <<data>>)

\* Clock of the node after _resolveConflicts: merge, increment when the
\* node is the origin, a key for every known node.
ensureKnownNodesInClock(c, known) == [k \in DOMAIN c \cup known |-> ClockGet(c, k)]

ResolvedClock(n, data, known) ==
  LET merged == merge(vectorClock[n], fromJSON(data.vectorClock))
      bumped == IF data.origin = n THEN increment(merged, n) ELSE merged
  IN  ensureKnownNodesInClock(bumped, known)

\* Record _resolveConflicts returns: the winner of the resolution (or the
\* incoming record when the path is empty), stamped with the node's clock.
FinalData(n, data, clock) ==
  LET newData == NewData(data)
      winner == IF data.path \in DOMAIN db[n]
                  THEN resolve(db[n][data.path], newData)
                  ELSE newData
  IN  [value |-> winner.value, origin |-> winner.origin, vectorClock |-> clock]

\* db.get returns; the synchronous part of handlePut up to await db.put.
PutResolve(n) ==
  /\ storeQueue[n] # <<>>
  /\ Head(storeQueue[n]).op = "get"
  /\ lifecycle[n] # "down"
  /\ LET data == Head(storeQueue[n]).data
         known == knownNodeIds[n] \cup {data.origin}
         clock == ResolvedClock(n, data, known)
     IN  /\ knownNodeIds' = [knownNodeIds EXCEPT ![n] = known]
         /\ vectorClock' = [vectorClock EXCEPT ![n] = clock]
         /\ versionHistory' =
              IF data.path \in DOMAIN db[n] /\ ~isShuttingDown(n)
                THEN [versionHistory EXCEPT ![n][data.path] =
                        addToVersionHistory(@, db[n][data.path], maxVersions)]
                ELSE versionHistory
         /\ storeQueue' =
              [storeQueue EXCEPT ![n] =
                 Append(Tail(@), [op |-> "put", data |-> data,
                                  rest |-> Head(storeQueue[n]).rest,
                                  finalData |-> FinalData(n, data, clock)])]
  /\ UNCHANGED <<links, masterKey, apiReturns, evaluated, antiEntropy, lifecycle, messageTimestamps, db, notifications, network,
                 now, putLog, drops, used>>

\* Message _propagateChanges hands to socketManager.broadcast; the
\* broadcast manager stamps the node's clock at the time of sending.
BroadcastData(n, data) ==
  [data EXCEPT !.vectorClock = vectorClock[n],
               !.visitedServers = @ \cup {n}]

Broadcast(n, msg) ==
  {[to |-> m, from |-> n, event |-> "put", copy |-> 0, data |-> encryptData(n, msg)] :
     m \in sockets(n)}

\* A notification that overtakes the ones delivered before it.
notifySubscribersOvertaking(n, path, value) ==
  IF isShuttingDown(n) THEN notifications
  ELSE [notifications EXCEPT ![n] = <<<<path, value>>>> \o @]

\* SubscriptionManager.notifySubscribers: nothing while shutting down,
\* otherwise every matching callback is called, synchronously.
notifySubscribers(n, path, value) ==
  IF isShuttingDown(n) THEN notifications
  ELSE [notifications EXCEPT ![n] = Append(@, <<path, value>>)]

\* A handlePut that propagates whatever it has applied.
propagatesAlways(n, data) == ~isShuttingDown(n)

\* The condition under which handlePut calls _propagateChanges.
propagates(n, data) == ~isShuttingDown(n) /\ ~data.antiEntropy

\* db.put returns: the record is stored, subscribers are notified and the
\* change is propagated (not while shutting down, not for anti-entropy);
\* the loop over an anti-entropy response goes on to its next change.
PutComplete(n) ==
  /\ storeQueue[n] # <<>>
  /\ Head(storeQueue[n]).op = "put"
  /\ lifecycle[n] # "down"
  /\ LET task == Head(storeQueue[n])
         data == task.data
     IN  /\ db' = [db EXCEPT ![n] =
                     [p \in DOMAIN @ \cup {data.path} |->
                        IF p = data.path THEN task.finalData ELSE @[p]]]
         /\ notifications' = notifySubscribers(n, data.path, task.finalData.value)
         /\ network' =
              IF propagates(n, data)
                THEN network \cup Broadcast(n, BroadcastData(n, data))
                ELSE network
  /\ StartPuts(n, Tail(storeQueue[n]), Head(storeQueue[n]).rest)
  /\ UNCHANGED <<links, masterKey, apiReturns, evaluated, antiEntropy, lifecycle, vectorClock, knownNodeIds,
                 versionHistory, now, putLog, drops, used>>

\* msgId of the k-th local put (random, hence unique) and of the record of
\* `path` in the response to the anti-entropy request `requestId`.
PutId(n, k) == [kind |-> "put", node |-> n, peer |-> n, seq |-> k, path |-> ""]
AntiEntropyId(requestId, path) ==
  [kind |-> "anti-entropy", node |-> requestId.node, peer |-> requestId.peer,
   seq |-> requestId.seq, path |-> path]

\* ServerAPI.get: the value of the stored record, null when there is none.
get(n, path) == IF path \in DOMAIN db[n] THEN db[n][path].value ELSE Null

\* ServerAPI.put: a fresh msgId, the node's clock incremented on its own
\* id, then handlePut up to its first suspension.
LocalPut(n, path, value, bound) ==
  /\ used.puts < bound
  /\ ~isShuttingDown(n)
  /\ LET k == used.puts + 1
         data == [path |-> path, value |-> value, msgId |-> PutId(n, k), origin |-> n,
                  vectorClock |-> increment(vectorClock[n], n),
                  visitedServers |-> {}, antiEntropy |-> FALSE]
     IN  /\ PutBegin(n, data)
         /\ putLog' = [id \in DOMAIN putLog \cup {k} |->
                         IF id = k THEN [origin |-> n, path |-> path, value |-> value,
                                         seen |-> processedMessages(n)]
                         ELSE putLog[id]]
  /\ used' = [used EXCEPT !.puts = @ + 1]
  /\ UNCHANGED <<links, masterKey, apiReturns, evaluated, antiEntropy, lifecycle, vectorClock, knownNodeIds, db, versionHistory,
                 notifications, network, now, drops>>

\* ServerAPI.put while the server is shutting down: the call throws before
\* it reads the clock, the promise rejects.
PutShuttingDown(n, path, value) ==
  /\ isShuttingDown(n)
  /\ apiReturns' = apiReturns \cup
       {[node |-> n, op |-> "put", path |-> path, shuttingDown |-> TRUE,
         result |-> "rejected"]}
  /\ UNCHANGED <<links, masterKey, evaluated, lifecycle, vectorClock, knownNodeIds, messageTimestamps, db,
                 versionHistory, notifications, storeQueue, network, now, antiEntropy, putLog,
                 drops, used>>

\* ServerAPI.del.  The body is one try block whose catch logs the error and
\* returns false: while shutting down the error thrown by the check is
\* caught and the promise resolves to false.  Otherwise a path that reads
\* null gives false, and any other path is written with put(path, null).
del(n, path, bound) ==
  IF isShuttingDown(n) \/ get(n, path) = Null
    THEN /\ lifecycle[n] # "down" \/ isShuttingDown(n)
         /\ apiReturns' = apiReturns \cup
              {[node |-> n, op |-> "del", path |-> path, shuttingDown |-> isShuttingDown(n),
                result |-> "false"]}
         /\ UNCHANGED <<links, masterKey, evaluated, lifecycle, vectorClock, knownNodeIds,
                        messageTimestamps, db, versionHistory, notifications, storeQueue,
                        network, now, antiEntropy, putLog, drops, used>>
    ELSE LocalPut(n, path, Null, bound)

\* Why handlePut returns before marking the message.
DropReason(n, data) ==
  IF isShuttingDown(n) THEN "shutdown"
  ELSE IF AlreadyProcessed(n, data) THEN "duplicate"
  ELSE "visited"

\* A put message reaches its destination: handlePutMessage, then handlePut
\* up to its first suspension or its early return.
ReceivePut(m) ==
  /\ m \in network
  /\ m.event = "put"
  /\ lifecycle[m.to] # "down"
  /\ network' = network \ {m}
  /\ IF ~isShuttingDown(m.to) /\ ~Readable(m.to, m.data)
       THEN UNCHANGED <<messageTimestamps, storeQueue, drops>>
       ELSE LET data == decryptData(m.to, m.data)
            IN  IF Dropped(m.to, data)
                  THEN /\ drops' = drops \cup {[node |-> m.to, msgId |-> data.msgId,
                                                reason |-> DropReason(m.to, data)]}
                       /\ UNCHANGED <<messageTimestamps, storeQueue>>
                  ELSE /\ PutBegin(m.to, data)
                       /\ UNCHANGED drops
  /\ UNCHANGED <<links, masterKey, apiReturns, evaluated, antiEntropy, lifecycle, vectorClock, knownNodeIds, db,
                 versionHistory, notifications, now, putLog, used>>

DeliverPut == \E m \in network : ReceivePut(m)

\* The transport delivers a message twice: a second copy is in flight.
Duplicate ==
  /\ used.dups < MaxDup
  /\ \E m \in network : m.copy = 0 /\ network' = network \cup {[m EXCEPT !.copy = 1]}
  /\ used' = [used EXCEPT !.dups = @ + 1]
  /\ UNCHANGED <<links, masterKey, apiReturns, evaluated, antiEntropy, lifecycle, vectorClock, knownNodeIds, messageTimestamps, db,
                 versionHistory, notifications, storeQueue, now, putLog, drops>>

\* The transport loses a message.
Lose ==
  /\ \E m \in network : network' = network \ {m}
  /\ UNCHANGED <<links, masterKey, apiReturns, evaluated, antiEntropy, lifecycle, vectorClock, knownNodeIds, messageTimestamps, db,
                 versionHistory, notifications, storeQueue, now, putLog, drops,
                 used>>

\* ----------------------------------------------------- time and the sweep
Tick ==
  /\ used.ticks < MaxTicks
  /\ now' = now + TickMs
  /\ used' = [used EXCEPT !.ticks = @ + 1]
  /\ UNCHANGED <<links, masterKey, apiReturns, evaluated, antiEntropy, lifecycle, vectorClock, knownNodeIds, messageTimestamps, db,
                 versionHistory, notifications, storeQueue, network, putLog, drops>>

\* Entries cleanupProcessedMessages removes.
Expired(n) == {id \in DOMAIN messageTimestamps[n] : now - messageTimestamps[n][id] > maxMessageAge}

\* The cleanup interval fires (every minute while the node is not shutting down).
cleanupProcessedMessages(n) ==
  /\ ~isShuttingDown(n)
  /\ Expired(n) # {}
  /\ messageTimestamps' =
       [messageTimestamps EXCEPT ![n] = [id \in DOMAIN @ \ Expired(n) |-> @[id]]]
  /\ UNCHANGED <<links, masterKey, apiReturns, evaluated, antiEntropy, lifecycle, vectorClock, knownNodeIds, db, versionHistory,
                 notifications, storeQueue, network, now, putLog, drops, used>>

\* ------------------------------------------------- vector-clock sync
Message(to, from, event, data) ==
  [to |-> to, from |-> from, event |-> event, copy |-> 0, data |-> data]

\* The vector-clock-sync message of node n; the ones sent on connection
\* are not marked isAntiEntropy and go through the receiver's rate limiter.
SyncMessage(n, isAntiEntropy) ==
  [nodeId |-> n, vectorClock |-> vectorClock[n], isAntiEntropy |-> isAntiEntropy]

\* Clock after a sync or anti-entropy message from nodeId has been merged.
MergedClock(n, data) == merge(vectorClock[n], fromJSON(data.vectorClock))

\* VectorClockSync.synchronizeVectorClocks on the 2 s interval: the clock
\* goes to every connected peer, each peer becomes a known node and a key.
synchronizeVectorClocks(n) ==
  /\ ~isShuttingDown(n)
  /\ used.syncs < MaxSyncs
  /\ sockets(n) # {}
  /\ network' = network \cup
       {Message(m, n, "vector-clock-sync", SyncMessage(n, TRUE)) : m \in sockets(n)}
  /\ knownNodeIds' = [knownNodeIds EXCEPT ![n] = @ \cup sockets(n)]
  /\ vectorClock' = [vectorClock EXCEPT ![n] =
                       ensureKnownNodesInClock(@, knownNodeIds[n] \cup sockets(n))]
  /\ used' = [used EXCEPT !.syncs = @ + 1]
  /\ UNCHANGED <<links, masterKey, apiReturns, evaluated, lifecycle, messageTimestamps, db, versionHistory, notifications,
                 storeQueue, now, antiEntropy, putLog, drops>>

\* A vector-clock-sync message arrives (sync-handlers, then
\* handleVectorClockSync): refused by the rate limiter or while shutting
\* down, else merged and answered with the merged clock.
ReceiveSync(m, limited) ==
  /\ m \in network
  /\ m.event = "vector-clock-sync"
  /\ lifecycle[m.to] # "down"
  /\ limited => ~m.data.isAntiEntropy /\ used.limited < MaxLimited
  /\ used' = IF limited THEN [used EXCEPT !.limited = @ + 1] ELSE used
  /\ IF isShuttingDown(m.to) \/ limited
       THEN /\ network' = network \ {m}
            /\ UNCHANGED <<knownNodeIds, vectorClock>>
       ELSE LET n == m.to
                known == knownNodeIds[n] \cup {m.data.nodeId}
                clock == ensureKnownNodesInClock(MergedClock(n, m.data), known)
                response == [nodeId |-> n, vectorClock |-> clock]
            IN  /\ knownNodeIds' = [knownNodeIds EXCEPT ![n] = known]
                /\ vectorClock' = [vectorClock EXCEPT ![n] = clock]
                /\ network' = (network \ {m}) \cup
                     IF m.from \in sockets(n)
                       THEN {Message(m.from, n, "vector-clock-sync-response", response)}
                       ELSE {}
  /\ UNCHANGED <<links, masterKey, apiReturns, evaluated, lifecycle, messageTimestamps, db, versionHistory, notifications,
                 storeQueue, now, antiEntropy, putLog, drops>>

DeliverSync == \E m \in network : ReceiveSync(m, FALSE)

LimitSync == \E m \in network : ReceiveSync(m, TRUE)

\* handleVectorClockSyncResponse.
ReceiveSyncResponse(m) ==
  /\ m \in network
  /\ m.event = "vector-clock-sync-response"
  /\ lifecycle[m.to] # "down"
  /\ network' = network \ {m}
  /\ IF isShuttingDown(m.to)
       THEN UNCHANGED <<knownNodeIds, vectorClock>>
       ELSE LET n == m.to
                known == knownNodeIds[n] \cup {m.data.nodeId}
            IN  /\ knownNodeIds' = [knownNodeIds EXCEPT ![n] = known]
                /\ vectorClock' = [vectorClock EXCEPT ![n] =
                                     ensureKnownNodesInClock(MergedClock(n, m.data), known)]
  /\ UNCHANGED <<links, masterKey, apiReturns, evaluated, lifecycle, messageTimestamps, db, versionHistory, notifications,
                 storeQueue, now, antiEntropy, putLog, drops, used>>

DeliverSyncResponse == \E m \in network : ReceiveSyncResponse(m)

\* The connect-time exchange over the connections between n and its
\* peers: each end sends its clock (_handleOutgoingConnection,
\* _synchronizeWithNewPeer).
ConnectMessages(n, peers, clockOfN) ==
  {Message(m, n, "vector-clock-sync",
           [nodeId |-> n, vectorClock |-> clockOfN, isAntiEntropy |-> FALSE]) : m \in peers}
  \cup {Message(n, m, "vector-clock-sync", SyncMessage(m, FALSE)) : m \in peers}

\* ----------------------------------------------------------- anti-entropy
\* ExecutionManager.canRun for a run that is not forced.
canRun(n) ==
  /\ ~antiEntropy[n].isRunning
  /\ now - antiEntropy[n].lastRunTime >= backoffTime

\* AntiEntropy.run up to the 100 ms wait of syncVectorClocksWithPeers:
\* markRunning, selectPeersForSync (every connected peer becomes a known
\* node), the clock is sent to the selected peers.  Without peers the run
\* is over at once.
AntiEntropyRun(n) ==
  /\ ~isShuttingDown(n)
  /\ used.runs < MaxRuns
  /\ canRun(n)
  /\ used' = [used EXCEPT !.runs = @ + 1]
  /\ IF sockets(n) = {}
       THEN /\ antiEntropy' = [antiEntropy EXCEPT ![n].lastRunTime = now]
            /\ UNCHANGED <<knownNodeIds, network>>
       ELSE /\ antiEntropy' = [antiEntropy EXCEPT ![n] =
                 [isRunning |-> TRUE, lastRunTime |-> now, peers |-> sockets(n)]]
            /\ knownNodeIds' = [knownNodeIds EXCEPT ![n] = @ \cup sockets(n)]
            /\ network' = network \cup
                 {Message(m, n, "vector-clock-sync", SyncMessage(n, TRUE)) : m \in sockets(n)}
  /\ UNCHANGED <<links, masterKey, apiReturns, evaluated, lifecycle, vectorClock, messageTimestamps, db, versionHistory,
                 notifications, storeQueue, now, putLog, drops>>

\* The rest of the run: an anti-entropy-request to every selected peer
\* that is still connected, the final synchronizeVectorClocks (skipped
\* when one ran less than a second ago, or while shutting down) and
\* markCompleted.
AntiEntropyRequests(n, syncSkipped) ==
  /\ antiEntropy[n].isRunning
  /\ lifecycle[n] # "down"
  /\ LET peers == antiEntropy[n].peers \cap sockets(n)
         requests ==
           {Message(m, n, "anti-entropy-request",
                    [requestId |-> [node |-> n, peer |-> m, seq |-> used.runs],
                     nodeId |-> n, vectorClock |-> vectorClock[n], path |-> ""]) :
              m \in peers}
         synced == ~syncSkipped /\ ~isShuttingDown(n) /\ sockets(n) # {}
     IN  /\ network' = network \cup requests \cup
              IF synced
                THEN {Message(m, n, "vector-clock-sync", SyncMessage(n, TRUE)) :
                        m \in sockets(n)}
                ELSE {}
         /\ knownNodeIds' =
              IF synced THEN [knownNodeIds EXCEPT ![n] = @ \cup sockets(n)] ELSE knownNodeIds
         /\ vectorClock' =
              IF synced
                THEN [vectorClock EXCEPT ![n] =
                        ensureKnownNodesInClock(@, knownNodeIds[n] \cup sockets(n))]
                ELSE vectorClock
  /\ antiEntropy' = [antiEntropy EXCEPT ![n].isRunning = FALSE, ![n].peers = {}]
  /\ UNCHANGED <<links, masterKey, apiReturns, evaluated, lifecycle, messageTimestamps, db, versionHistory, notifications,
                 storeQueue, now, putLog, drops, used>>

\* handleAntiEntropyRequest up to await db.scan: the requester becomes a
\* known node and its clock is merged.
ReceiveAntiEntropyRequest(m) ==
  /\ m \in network
  /\ m.event = "anti-entropy-request"
  /\ lifecycle[m.to] # "down"
  /\ network' = network \ {m}
  /\ IF isShuttingDown(m.to)
       THEN UNCHANGED <<knownNodeIds, vectorClock, storeQueue>>
       ELSE LET n == m.to
            IN  /\ knownNodeIds' = [knownNodeIds EXCEPT ![n] = @ \cup {m.data.nodeId}]
                /\ vectorClock' = [vectorClock EXCEPT ![n] = MergedClock(n, m.data)]
                /\ storeQueue' = [storeQueue EXCEPT ![n] =
                                    Append(@, [op |-> "scan", data |-> m.data, rest |-> <<>>])]
  /\ UNCHANGED <<links, masterKey, apiReturns, evaluated, lifecycle, messageTimestamps, db, versionHistory, notifications,
                 now, antiEntropy, putLog, drops, used>>

DeliverAntiEntropyRequest == \E m \in network : ReceiveAntiEntropyRequest(m)

\* db.scan(""): every stored record, in key order, as {path, value,
\* vectorClock, origin}.
PathOrder == <<"p", "q">>

scan(n) ==
  LET Stored(path) == path \in DOMAIN db[n]
      paths == SelectSeq(PathOrder, Stored)
  IN  [i \in 1..Len(paths) |->
         [path |-> paths[i], value |-> db[n][paths[i]].value,
          vectorClock |-> db[n][paths[i]].vectorClock, origin |-> db[n][paths[i]].origin]]

\* db.scan returns; _sendResponseInBatches: one batch holds up to 50
\* changes, no batch is sent for an empty store or while shutting down.
SendResponse(n) ==
  /\ storeQueue[n] # <<>>
  /\ Head(storeQueue[n]).op = "scan"
  /\ lifecycle[n] # "down"
  /\ LET request == Head(storeQueue[n]).data
         changes == scan(n)
         response == [responseId |-> request.requestId, nodeId |-> n,
                      vectorClock |-> vectorClock[n], changes |-> changes]
     IN  network' =
           IF changes # <<>> /\ ~isShuttingDown(n) /\ request.nodeId \in sockets(n)
             THEN network \cup {Message(request.nodeId, n, "anti-entropy-response", response)}
             ELSE network
  /\ storeQueue' = [storeQueue EXCEPT ![n] = Tail(@)]
  /\ UNCHANGED <<links, masterKey, apiReturns, evaluated, lifecycle, vectorClock, knownNodeIds, messageTimestamps, db,
                 versionHistory, notifications, now, antiEntropy, putLog, drops, used>>

SyncDataFirstOnly(data, changes) ==
  IF changes = <<>> THEN <<>>
  ELSE <<[path |-> Head(changes).path, value |-> Head(changes).value,
          msgId |-> AntiEntropyId(data.responseId, Head(changes).path),
          origin |-> Head(changes).origin, vectorClock |-> data.vectorClock,
          visitedServers |-> {}, antiEntropy |-> TRUE]>>

\* The handlePut calls _processResponseChanges makes for a response.
RECURSIVE SyncData(_, _)
SyncData(data, changes) ==
  IF changes = <<>> THEN <<>>
  ELSE <<[path |-> Head(changes).path, value |-> Head(changes).value,
          msgId |-> AntiEntropyId(data.responseId, Head(changes).path),
          origin |-> Head(changes).origin, vectorClock |-> data.vectorClock,
          visitedServers |-> {}, antiEntropy |-> TRUE]>>
       \o SyncData(data, Tail(changes))

\* handleAntiEntropyResponse: the responder becomes a known node, its
\* clock is merged, and the changes go through handlePut one after the
\* other.
ReceiveAntiEntropyResponse(m) ==
  /\ m \in network
  /\ m.event = "anti-entropy-response"
  /\ lifecycle[m.to] # "down"
  /\ network' = network \ {m}
  /\ IF isShuttingDown(m.to)
       THEN UNCHANGED <<knownNodeIds, vectorClock, messageTimestamps, storeQueue>>
       ELSE LET n == m.to
            IN  /\ knownNodeIds' = [knownNodeIds EXCEPT ![n] = @ \cup {m.data.nodeId}]
                /\ vectorClock' = [vectorClock EXCEPT ![n] = MergedClock(n, m.data)]
                /\ StartPuts(n, storeQueue[n], SyncData(m.data, m.data.changes))
  /\ UNCHANGED <<links, masterKey, apiReturns, evaluated, lifecycle, db, versionHistory, notifications, now, antiEntropy,
                 putLog, drops, used>>

DeliverAntiEntropyResponse == \E m \in network : ReceiveAntiEntropyResponse(m)

\* ------------------------------------------------------ shutdown, restart
\* P2PServer.close up to its 500 ms wait: the flags are set, the intervals
\* cleared and every connection closed; nothing more reaches the node.
Close(n) ==
  /\ lifecycle[n] = "up"
  /\ used.restarts < MaxRestarts
  /\ lifecycle' = [lifecycle EXCEPT ![n] = "closing"]
  /\ network' = {m \in network : m.to # n}
  /\ used' = [used EXCEPT !.restarts = @ + 1]
  /\ UNCHANGED <<links, masterKey, apiReturns, evaluated, vectorClock, knownNodeIds, messageTimestamps, db, versionHistory,
                 notifications, storeQueue, now, antiEntropy, putLog, drops>>

\* The store is closed: operations it has not served are abandoned.
CloseStore(n) ==
  /\ lifecycle[n] = "closing"
  /\ lifecycle' = [lifecycle EXCEPT ![n] = "down"]
  /\ storeQueue' = [storeQueue EXCEPT ![n] = <<>>]
  /\ UNCHANGED <<links, masterKey, apiReturns, evaluated, vectorClock, knownNodeIds, messageTimestamps, db, versionHistory,
                 notifications, network, now, antiEntropy, putLog, drops, used>>

\* new P2PServer(config) with the same serverID over the same store, then
\* start(): everything held in memory is as after construction, the
\* records in the store are kept, the peers are connected again.
Start(n) ==
  /\ lifecycle[n] = "down"
  /\ lifecycle' = [lifecycle EXCEPT ![n] = "up"]
  /\ vectorClock' = [vectorClock EXCEPT ![n] = increment(EmptyFn, n)]
  /\ knownNodeIds' = [knownNodeIds EXCEPT ![n] = {n}]
  /\ messageTimestamps' = [messageTimestamps EXCEPT ![n] = EmptyFn]
  /\ versionHistory' = [versionHistory EXCEPT ![n] = [p \in Path |-> <<>>]]
  /\ antiEntropy' = [antiEntropy EXCEPT ![n] =
                       [isRunning |-> FALSE, lastRunTime |-> 0, peers |-> {}]]
  /\ network' = network \cup
       ConnectMessages(n, {m \in Node : <<n, m>> \in links /\ lifecycle[m] = "up"},
                       increment(EmptyFn, n))
  /\ UNCHANGED <<links, masterKey, apiReturns, evaluated, db, notifications, storeQueue, now, putLog, drops, used>>

\* ------------------------------------------------------------- gossip only
GossipNodes == {"n1", "n2", "n3"}

InitGossip ==
  /\ InitNodes
  /\ links = Chain

NextGossip ==
  \/ \E n \in GossipNodes, path \in Path, value \in Value : LocalPut(n, path, value, MaxPuts)
  \/ \E n \in GossipNodes : PutResolve(n)
  \/ \E n \in GossipNodes : PutComplete(n)
  \/ DeliverPut
  \/ Lose

SpecGossip == InitGossip /\ [][NextGossip]_vars



\* No message is in flight and no handlePut call is suspended.
Quiet ==
  /\ network = {}
  /\ \A n \in Node : storeQueue[n] = <<>>

\* Every put issued has been delivered to (and processed by) node n.
AllDeliveredTo(n) ==
  \A id \in DOMAIN putLog : PutId(putLog[id].origin, id) \in processedMessages(n)

SameRecord(a, b) ==
  /\ a.value = b.value
  /\ compare(a.vectorClock, b.vectorClock) = 2

\* C1: once every put has been delivered to every node and nothing is in
\* flight, all nodes store the identical {value, vectorClock} at every path.
Convergence ==
  (Quiet /\ \A n \in GossipNodes : AllDeliveredTo(n)) =>
    \A n, m \in GossipNodes : \A path \in Path :
      /\ (path \in DOMAIN db[n]) = (path \in DOMAIN db[m])
      /\ path \in DOMAIN db[n] => SameRecord(db[n][path], db[m][path])

\* The puts were issued by two different nodes to one path, all were
\* delivered everywhere, and two nodes hold different values.
ValueDivergence ==
  /\ Quiet
  /\ \A n \in GossipNodes : AllDeliveredTo(n)
  /\ DOMAIN putLog = {1, 2}
  /\ putLog[1].origin # putLog[2].origin
  /\ \E n, m \in GossipNodes : get(n, "p") # get(m, "p")

\* Put id is the only write to its path.
OnlyWrite(id) == \A other \in DOMAIN putLog : other # id => putLog[other].path # putLog[id].path

\* Node n has finished processing put id.
Applied(n, id) ==
  /\ PutId(putLog[id].origin, id) \in processedMessages(n)
  /\ \A i \in 1..Len(storeQueue[n]) :
       storeQueue[n][i].data.msgId # PutId(putLog[id].origin, id)

\* C2: a value put at a path nobody else writes is what get(path) returns
\* on every node the put message has reached and been processed by.
SimpleReplication ==
  \A id \in DOMAIN putLog : \A n \in GossipNodes :
    (OnlyWrite(id) /\ Applied(n, id)) => get(n, putLog[id].path) = putLog[id].value

\* The put of n1 has reached n3, two hops away, through n2.
ReplicatedThroughForwarding ==
  \E id \in DOMAIN putLog :
    /\ putLog[id].origin = "n1"
    /\ OnlyWrite(id)
    /\ Applied("n3", id)
    /\ get("n3", putLog[id].path) = putLog[id].value

\* n1 and n2 each put a different value at p before applying the other's
\* put, and each has since processed the other's message.
ConcurrentPair ==
  /\ DOMAIN putLog = {1, 2}
  /\ {putLog[1].origin, putLog[2].origin} = {"n1", "n2"}
  /\ putLog[1].path = "p" /\ putLog[2].path = "p"
  /\ putLog[1].value # putLog[2].value
  /\ PutId(putLog[1].origin, 1) \notin putLog[2].seen
  /\ \A n \in {"n1", "n2"} : Applied(n, 1) /\ Applied(n, 2)

\* Value written by the put whose origin sorts last (the tiebreak winner).
TiebreakValue == IF putLog[1].origin = "n2" THEN putLog[1].value ELSE putLog[2].value

\* C3: after two nodes have exchanged their concurrent puts to one path,
\* both store the same value, the one written by the origin that wins the
\* lexicographic tiebreak.
ConcurrentWritesConverge ==
  ConcurrentPair => get("n1", "p") = TiebreakValue /\ get("n2", "p") = TiebreakValue


\* ------------------------------------- duplicates and the sweep, two nodes
SweepNodes == {"n1", "n2"}

InitSweep ==
  /\ InitNodes
  /\ links = Mesh(SweepNodes)

NextSweep ==
  \/ \E n \in SweepNodes, value \in Value : LocalPut(n, "p", value, MaxPuts)
  \/ \E n \in SweepNodes : PutResolve(n)
  \/ \E n \in SweepNodes : PutComplete(n)
  \/ DeliverPut
  \/ Duplicate
  \/ Tick
  \/ \E n \in SweepNodes : cleanupProcessedMessages(n)

SpecSweep == InitSweep /\ [][NextSweep]_vars

\* Message m is taken off the network in this step and nothing is sent.
Taken(m) == network' = network \ {m}

\* C7: a msgId in the recent-set is not processed again: delivering a put
\* whose msgId is in the receiver's recent-set changes neither the store,
\* the clock, the history, the notifications, the pending store operations
\* nor the network (but for the message taken off it), a handlePut call
\* only gets past its entry checks with a msgId that is not in the
\* recent-set, and the sweep removes only entries older than maxMessageAge.
Idempotence ==
  [][/\ \A m \in network :
          (m.event = "put" /\ m.data.msgId \in DOMAIN messageTimestamps[m.to] /\ Taken(m)) =>
            UNCHANGED <<db, vectorClock, knownNodeIds, versionHistory, notifications,
                        storeQueue, messageTimestamps>>
     /\ \A n \in Node :
          Len(storeQueue'[n]) > Len(storeQueue[n]) =>
            storeQueue'[n][Len(storeQueue'[n])].data.msgId \notin DOMAIN messageTimestamps[n]
     /\ \A n \in Node : \A id \in DOMAIN messageTimestamps[n] \ DOMAIN messageTimestamps'[n] :
          now - messageTimestamps[n][id] > maxMessageAge]_vars

\* A second copy of a put was dropped as a duplicate while the call of
\* the first copy was still waiting on the store.
DuplicateDroppedWhileWaiting ==
  \E d \in drops :
    /\ d.reason = "duplicate"
    /\ \E i \in 1..Len(storeQueue[d.node]) : storeQueue[d.node][i].data.msgId = d.msgId

\* C8: a put delivered to a node listed in its visitedServers is dropped:
\* no store operation is started (nothing will be persisted), nothing is
\* notified, the message is not marked and nothing is broadcast.
LoopPrevention ==
  [][\A m \in network :
       (m.event = "put" /\ m.to \in m.data.visitedServers /\ Taken(m)) =>
         UNCHANGED <<db, vectorClock, knownNodeIds, versionHistory, notifications,
                     storeQueue, messageTimestamps>>]_vars

\* A put came back to a node it had visited after the sweep had removed
\* its msgId from the recent-set: only the visitedServers check stops it.
DroppedAsVisited == \E d \in drops : d.reason = "visited"


\* ---------------------------------------------- restart over the same store
\* A standalone node (peers: []) that is written to, closed and started
\* again with the same serverID and dbPath.
InitRestart ==
  /\ InitNodes
  /\ links = {}

NextRestart ==
  \/ \E value \in Value : LocalPut("n1", "p", value, MaxPutsRestart)
  \/ PutResolve("n1")
  \/ PutComplete("n1")
  \/ Close("n1")
  \/ CloseStore("n1")
  \/ Start("n1")

SpecRestart == InitRestart /\ [][NextRestart]_vars

\* In this step node n resolves a put it authored itself (db.get returned).
ResolvesOwnPut(n) ==
  /\ storeQueue[n] # <<>>
  /\ Head(storeQueue[n]).op = "get"
  /\ Head(storeQueue[n]).data.origin = n
  /\ Head(storeQueue[n]).data.msgId.kind = "put"
  /\ Len(storeQueue'[n]) = Len(storeQueue[n])
  /\ storeQueue'[n] # storeQueue[n]

\* C5: a node's counter for its own id never decreases, and a locally
\* authored write leaves it strictly greater.
CausalMonotonicity ==
  [][\A n \in Node :
       /\ ClockGet(vectorClock'[n], n) >= ClockGet(vectorClock[n], n)
       /\ ResolvesOwnPut(n) => ClockGet(vectorClock'[n], n) > ClockGet(vectorClock[n], n)]_vars

\* A node has written locally and then been restarted: its own counter is
\* back at 1 while a record of its store carries a larger one.
CounterResetByRestart ==
  \E n \in Node : \E path \in DOMAIN db[n] :
    /\ lifecycle[n] = "up"
    /\ db[n][path].origin = n
    /\ ClockGet(vectorClock[n], n) < ClockGet(db[n][path].vectorClock, n)

\* C9: each record persisted at a path has a clock that is greater than or
\* equal to the clock of the record it replaces (so of every record
\* persisted there before), or is concurrent with it and wins the
\* resolution against it.
PersistedClockMonotone ==
  [][\A n \in Node : \A path \in DOMAIN db[n] :
       db'[n][path] # db[n][path] =>
         \/ ClockLeq(db[n][path].vectorClock, db'[n][path].vectorClock)
         \/ /\ compare(db'[n][path].vectorClock, db[n][path].vectorClock) = 0
            /\ vectorDominance(db[n][path], db'[n][path]) = db'[n][path]]_vars


\* ------------------------------- clock sync and anti-entropy, two nodes
SyncNodes == {"n1", "n2"}

\* Both nodes are started and connected; the connect-time clock exchange
\* is in flight.
InitSync ==
  /\ masterKey = [n \in Node |-> "none"]
  /\ lifecycle = [n \in Node |-> "up"]
  /\ vectorClock = [n \in Node |-> increment(EmptyFn, n)]
  /\ knownNodeIds = [n \in Node |-> {n}]
  /\ messageTimestamps = [n \in Node |-> EmptyFn]
  /\ db = [n \in Node |-> EmptyFn]
  /\ versionHistory = [n \in Node |-> [p \in Path |-> <<>>]]
  /\ notifications = [n \in Node |-> <<>>]
  /\ storeQueue = [n \in Node |-> <<>>]
  /\ links = Mesh(SyncNodes)
  /\ network = ConnectMessages("n1", {"n2"}, increment(EmptyFn, "n1"))
  /\ now = TickMs
  /\ antiEntropy = [n \in Node |-> [isRunning |-> FALSE, lastRunTime |-> 0, peers |-> {}]]
  /\ putLog = EmptyFn
  /\ drops = {}
  /\ apiReturns = {}
  /\ evaluated = NoCall
  /\ used = [puts |-> 0, dups |-> 0, ticks |-> 0, restarts |-> 0, syncs |-> 0, runs |-> 0,
             limited |-> 0]

NextSync ==
  \/ \E n \in SyncNodes : LocalPut(n, "p", "A", MaxPutsSync)
  \/ \E n \in SyncNodes : PutResolve(n)
  \/ \E n \in SyncNodes : PutComplete(n)
  \/ DeliverPut
  \/ synchronizeVectorClocks("n2")
  \/ DeliverSync
  \/ LimitSync
  \/ DeliverSyncResponse
  \/ AntiEntropyRun("n1")
  \/ \E syncSkipped \in BOOLEAN : AntiEntropyRequests("n1", syncSkipped)
  \/ DeliverAntiEntropyRequest
  \/ \E n \in SyncNodes : SendResponse(n)
  \/ DeliverAntiEntropyResponse

SpecSync == InitSync /\ [][NextSync]_vars


\* A step in which the node takes the result of db.get for the handlePut
\* call at the head of its store queue.
Resolves(n) ==
  /\ storeQueue[n] # <<>>
  /\ Head(storeQueue[n]).op = "get"
  /\ storeQueue'[n] # storeQueue[n]
  /\ Len(storeQueue'[n]) = Len(storeQueue[n])

\* The handler of a sync or anti-entropy message ran past its guards.
Handled(m) ==
  /\ m \in network
  /\ m \notin network'
  /\ m.event # "put"
  /\ ~isShuttingDown(m.to)
  /\ used'.limited = used.limited

\* C6: once a node has processed an inbound message (a put when its
\* conflict resolution has run, a vector-clock-sync, its response, an
\* anti-entropy request or an anti-entropy response when its handler has
\* run), every entry of the node's clock is at least the entry of the
\* clock the message carried.
PointwiseDominance ==
  [][/\ \A m \in network :
          Handled(m) => ClockLeq(fromJSON(m.data.vectorClock), vectorClock'[m.to])
     /\ \A n \in Node :
          Resolves(n) =>
            ClockLeq(fromJSON(Head(storeQueue[n]).data.vectorClock), vectorClock'[n])]_vars

\* C6 witness: n1 has merged the clock of an anti-entropy response of n2
\* that carried n2's write, while the put message of that write is still
\* on its way to n1.
ResponseClockMerged ==
  /\ \E m \in network : m.event = "put" /\ m.to = "n1" /\ m.data.origin = "n2"
  /\ \E i \in DOMAIN storeQueue["n1"] :
       /\ storeQueue["n1"][i].op # "scan"
       /\ storeQueue["n1"][i].data.msgId.kind = "anti-entropy"
       /\ ClockGet(storeQueue["n1"][i].data.vectorClock, "n2") >= 3
  /\ ClockGet(vectorClock["n1"], "n2") >= 3

\* C10: every node id in a node's known-node set is a key of the node's
\* vector clock, with a counter of 0 or more, in every state.
KnownNodesInClock ==
  \A n \in Node : \A id \in knownNodeIds[n] :
    id \in DOMAIN vectorClock[n] /\ vectorClock[n][id] >= 0

\* C10 witness: anti-entropy at n1 has selected n2, n2 is a known node of
\* n1 and the run is waiting for the clock exchange.
PeerSelected ==
  /\ antiEntropy["n1"].isRunning
  /\ "n2" \in antiEntropy["n1"].peers
  /\ "n2" \in knownNodeIds["n1"]


\* ------------------------------------------- catch-up after being offline
\* Three nodes that list each other as peers.  n1 and n3 are up and have
\* exchanged clocks with every peer; n2 has been closed.
InitAE ==
  /\ masterKey = [n \in Node |-> "none"]
  /\ lifecycle = [n \in Node |-> IF n = "n2" THEN "down" ELSE "up"]
  /\ vectorClock = [n \in Node |-> [k \in GossipNodes |-> 1]]
  /\ knownNodeIds = [n \in Node |-> GossipNodes]
  /\ messageTimestamps = [n \in Node |-> EmptyFn]
  /\ db = [n \in Node |-> EmptyFn]
  /\ versionHistory = [n \in Node |-> [p \in Path |-> <<>>]]
  /\ notifications = [n \in Node |-> <<>>]
  /\ storeQueue = [n \in Node |-> <<>>]
  /\ links = Mesh(GossipNodes)
  /\ network = {}
  /\ now = TickMs
  /\ antiEntropy = [n \in Node |-> [isRunning |-> FALSE, lastRunTime |-> 0, peers |-> {}]]
  /\ putLog = EmptyFn
  /\ drops = {}
  /\ apiReturns = {}
  /\ evaluated = NoCall
  /\ used = [puts |-> 0, dups |-> 0, ticks |-> 0, restarts |-> 0, syncs |-> 0, runs |-> 0,
             limited |-> 0]

\* Node n has called put().
Wrote(n) == \E id \in DOMAIN putLog : putLog[id].origin = n

\* n1 writes p and n3 writes q while n2 is down; once both have written
\* and their exchange has come to rest n2 is started again and runs
\* anti-entropy.
NextAE ==
  \/ lifecycle["n2"] = "down" /\ ~Wrote("n1") /\ LocalPut("n1", "p", "A", MaxPuts)
  \/ lifecycle["n2"] = "down" /\ ~Wrote("n3") /\ LocalPut("n3", "q", "B", MaxPuts)
  \/ \E n \in Node : PutResolve(n)
  \/ \E n \in Node : PutComplete(n)
  \/ DeliverPut
  \/ Quiet /\ Wrote("n1") /\ Wrote("n3") /\ Start("n2")
  \/ DeliverSync
  \/ DeliverSyncResponse
  \/ AntiEntropyRun("n2")
  \/ \E syncSkipped \in BOOLEAN : AntiEntropyRequests("n2", syncSkipped)
  \/ DeliverAntiEntropyRequest
  \/ \E n \in Node : SendResponse(n)
  \/ DeliverAntiEntropyResponse

SpecAE == InitAE /\ [][NextAE]_vars


\* n2 has been started again and its anti-entropy run is over: the
\* requests have been sent, every request has been answered and every
\* change of every response has been through handlePut.
CycleCompleted ==
  /\ lifecycle["n2"] = "up"
  /\ antiEntropy["n2"].lastRunTime > 0
  /\ ~antiEntropy["n2"].isRunning
  /\ \A m \in network : m.event \notin {"anti-entropy-request", "anti-entropy-response"}
  /\ \A n \in Node : \A i \in DOMAIN storeQueue[n] : storeQueue[n][i].op # "scan"
  /\ storeQueue["n2"] = <<>>

\* C4: n1 wrote p and n3 wrote q while n2 was stopped; once n2 is back,
\* connected to n1 and n3, and has completed one anti-entropy cycle,
\* get(p) and get(q) on n2 return the values written.
OfflineCatchUp ==
  CycleCompleted =>
    \A id \in DOMAIN putLog : OnlyWrite(id) => get("n2", putLog[id].path) = putLog[id].value

\* C4 witness: both writes were made, the cycle of n2 is over and n2
\* returns both values.
CaughtUp ==
  /\ CycleCompleted
  /\ Wrote("n1")
  /\ Wrote("n3")
  /\ get("n2", "p") = "A"
  /\ get("n2", "q") = "B"


\* ------------------------------------------------- peers with master keys
\* The auth-response a dialling peer with a security manager returns to
\* the challenge of a listener that has a peer authenticator; the
\* signature is an HMAC under the dialler's master key.
AuthResponses ==
  {Message(listener, dialler, "auth-response", [signature |-> masterKey[dialler]]) :
     <<dialler, listener>> \in
       {l \in links : securityEnabled(l[1]) /\ securityEnabled(l[2])}}

\* The auth-response handler of SocketManager._handleIdentify calls
\* handleAuthResponse on socketManager.securityManager, an instance of the
\* core SecurityManager, which has no such method: the call throws in the
\* event handler.  Either the exception ends the process or the host
\* absorbs it; in neither case is the signature verified or the socket
\* disconnected.
ReceiveAuthResponse(m, exits) ==
  /\ m \in network
  /\ m.event = "auth-response"
  /\ lifecycle[m.to] # "down"
  /\ IF exits
       THEN /\ lifecycle' = [lifecycle EXCEPT ![m.to] = "down"]
            /\ storeQueue' = [storeQueue EXCEPT ![m.to] = <<>>]
            /\ network' = {x \in network : x.to # m.to}
       ELSE /\ network' = network \ {m}
            /\ UNCHANGED <<lifecycle, storeQueue>>
  /\ UNCHANGED <<links, masterKey, apiReturns, evaluated, vectorClock, knownNodeIds, messageTimestamps, db,
                 versionHistory, notifications, now, antiEntropy, putLog, drops, used>>

DeliverAuthResponse == \E m \in network, exits \in BOOLEAN : ReceiveAuthResponse(m, exits)

\* Peers of a node under the configured links.
Peers(n) == {m \in Node : <<n, m>> \in links}

\* n1 holds key K1; its peer n2 holds the same key, another key, or has
\* security disabled.  The two list each other as peers, the connections
\* are up and the connect-time clock exchange is over; the auth-responses
\* are in flight.
SecureNodes == {"n1", "n2"}

MasterKeys == {"K1", "K2", "none"}

InitSecure ==
  /\ \E key \in MasterKeys :
       masterKey = [n \in Node |-> IF n = "n1" THEN "K1" ELSE IF n = "n2" THEN key ELSE "none"]
  /\ links = Mesh(SecureNodes)
  /\ lifecycle = [n \in Node |-> "up"]
  /\ vectorClock = [n \in Node |-> [k \in Peers(n) \cup {n} |-> 1]]
  /\ knownNodeIds = [n \in Node |-> Peers(n) \cup {n}]
  /\ messageTimestamps = [n \in Node |-> EmptyFn]
  /\ db = [n \in Node |-> EmptyFn]
  /\ versionHistory = [n \in Node |-> [p \in Path |-> <<>>]]
  /\ notifications = [n \in Node |-> <<>>]
  /\ storeQueue = [n \in Node |-> <<>>]
  /\ network = AuthResponses
  /\ now = TickMs
  /\ antiEntropy = [n \in Node |-> [isRunning |-> FALSE, lastRunTime |-> 0, peers |-> {}]]
  /\ putLog = EmptyFn
  /\ drops = {}
  /\ apiReturns = {}
  /\ evaluated = NoCall
  /\ used = [puts |-> 0, dups |-> 0, ticks |-> 0, restarts |-> 0, syncs |-> 0, runs |-> 0,
             limited |-> 0]

\* n2 writes p; n1 runs anti-entropy.
NextSecure ==
  \/ LocalPut("n2", "p", "A", MaxPuts)
  \/ \E n \in SecureNodes : PutResolve(n)
  \/ \E n \in SecureNodes : PutComplete(n)
  \/ DeliverPut
  \/ DeliverAuthResponse
  \/ DeliverSync
  \/ DeliverSyncResponse
  \/ AntiEntropyRun("n1")
  \/ \E syncSkipped \in BOOLEAN : AntiEntropyRequests("n1", syncSkipped)
  \/ DeliverAntiEntropyRequest
  \/ \E n \in SecureNodes : SendResponse(n)
  \/ DeliverAntiEntropyResponse

SpecSecure == InitSecure /\ [][NextSecure]_vars

\* A path that has been written, and by node n alone.
WrittenOnlyBy(n, path) ==
  /\ \E id \in DOMAIN putLog : putLog[id].path = path
  /\ \A id \in DOMAIN putLog : putLog[id].path = path => putLog[id].origin = n

\* C11: wrong-key isolation.  When n1 holds key K1 and its peer n2 holds
\* another key K2, n1 returns null for every path that only n2 has
\* written, whatever put broadcasts, vector-clock syncs and anti-entropy
\* runs have happened.
WrongKeyIsolation ==
  masterKey["n1"] = "K1" /\ masterKey["n2"] = "K2" =>
    \A k \in Path : WrittenOnlyBy("n2", k) => get("n1", k) = Null

\* C11: n1 returns the value that only the wrong-key peer n2 wrote, after
\* an anti-entropy run of n1.
WrongKeyValueStored ==
  /\ masterKey["n1"] = "K1"
  /\ masterKey["n2"] = "K2"
  /\ WrittenOnlyBy("n2", "p")
  /\ antiEntropy["n1"].lastRunTime > 0
  /\ get("n1", "p") = "A"


\* The synchronization events a node sends to its peers.
SyncEvents ==
  {"put", "vector-clock-sync", "vector-clock-sync-response", "anti-entropy-request",
   "anti-entropy-response"}

\* C12: with encryption enabled, every put, vector-clock-sync,
\* vector-clock-sync-response, anti-entropy-request and
\* anti-entropy-response a node sends is wrapped in an encrypted envelope;
\* no payload leaves the node in plaintext.
AllMessagesEncrypted ==
  \A m \in network : m.event \in SyncEvents /\ securityEnabled(m.from) => Encrypted(m.data)

\* C12: a node with encryption enabled has sent an anti-entropy-response
\* whose changes travel in plaintext.
PlaintextChangesSent ==
  \E m \in network :
    /\ m.event = "anti-entropy-response"
    /\ securityEnabled(m.from)
    /\ ~Encrypted(m.data)
    /\ m.data.changes # <<>>

\* n1 has encryption enabled, its peer n2 has not, so every put n2
\* broadcasts arrives unencrypted; no anti-entropy run has started, so
\* puts are all that n1 has received.
OnlyPlaintextPuts ==
  /\ securityEnabled("n1")
  /\ ~securityEnabled("n2")
  /\ used.runs = 0

\* C13: a node with encryption enabled drops an inbound put that arrives
\* unencrypted: its store and its vector clock do not change and it
\* forwards nothing.
UnencryptedPutDropped ==
  OnlyPlaintextPuts =>
    /\ db["n1"] = EmptyFn
    /\ vectorClock["n1"] = [k \in SecureNodes |-> 1]
    /\ \A m \in network : m.event = "put" => m.from # "n1"

\* C13: the encryption-enabled n1 has stored the value of an unencrypted
\* put and advanced its clock.
UnencryptedPutStored ==
  /\ OnlyPlaintextPuts
  /\ get("n1", "p") = "A"
  /\ ClockGet(vectorClock["n1"], "n2") > 1

\* ---------------------------------------------------- writes and shutdown
\* n1 and n2 are peers; n1 writes and deletes p, and closes.
CloseNodes == {"n1", "n2"}

InitClose ==
  /\ InitNodes
  /\ links = Mesh(CloseNodes)

NextClose ==
  \/ \E value \in Value : LocalPut("n1", "p", value, MaxPuts)
  \/ \E value \in Value : PutShuttingDown("n1", "p", value)
  \/ del("n1", "p", MaxPuts)
  \/ \E n \in CloseNodes : PutResolve(n)
  \/ \E n \in CloseNodes : PutComplete(n)
  \/ DeliverPut
  \/ Close("n1")
  \/ CloseStore("n1")

SpecClose == InitClose /\ [][NextClose]_vars

\* C14: once close() has begun, put and del both reject instead of
\* returning a result, and the call changes neither the store, the vector
\* clock nor the recent-set.
ShutdownWritesRejected ==
  /\ [](\A r \in apiReturns : r.shuttingDown => r.result = "rejected")
  /\ [][\A r \in apiReturns' \ apiReturns :
          r.shuttingDown => UNCHANGED <<db, vectorClock, messageTimestamps>>]_vars

\* C14: del was called after close() had begun and returned false.
DelReturnedFalseWhileClosing ==
  /\ lifecycle["n1"] = "closing"
  /\ [node |-> "n1", op |-> "del", path |-> "p", shuttingDown |-> TRUE, result |-> "false"]
       \in apiReturns

\* ------------------------------------------------------ conflict resolution
\* The records given to ConflictResolver.resolve: clocks over two node ids
\* with counters up to MaxCounter (a key may be absent), a value or the
\* tombstone, and an origin.
ClockIds == {"n1", "n2"}

Clocks == UNION {[S -> 0 .. MaxCounter] : S \in SUBSET ClockIds}

Records == [vectorClock : Clocks, value : Value \cup {Null}, origin : ClockIds]

InitResolve ==
  /\ \E strategy \in DominanceStrategies, localData \in Records, remoteData \in Records :
       evaluated = [fn |-> "input", strategy |-> strategy, localData |-> localData,
                    remoteData |-> remoteData]
  /\ links = {}
  /\ masterKey = [n \in Node |-> "none"]
  /\ lifecycle = [n \in Node |-> "up"]
  /\ vectorClock = [n \in Node |-> increment(EmptyFn, n)]
  /\ knownNodeIds = [n \in Node |-> {n}]
  /\ messageTimestamps = [n \in Node |-> EmptyFn]
  /\ db = [n \in Node |-> EmptyFn]
  /\ versionHistory = [n \in Node |-> [p \in Path |-> <<>>]]
  /\ notifications = [n \in Node |-> <<>>]
  /\ storeQueue = [n \in Node |-> <<>>]
  /\ network = {}
  /\ now = TickMs
  /\ antiEntropy = [n \in Node |-> [isRunning |-> FALSE, lastRunTime |-> 0, peers |-> {}]]
  /\ putLog = EmptyFn
  /\ drops = {}
  /\ apiReturns = {}
  /\ used = [puts |-> 0, dups |-> 0, ticks |-> 0, restarts |-> 0, syncs |-> 0, runs |-> 0,
             limited |-> 0]

\* conflictResolver.resolve(path, localData, remoteData) for a path whose
\* strategy is the default or its alias.
Resolve ==
  /\ evaluated.fn = "input"
  /\ evaluated' = [fn |-> "resolve", strategy |-> evaluated.strategy,
                   localData |-> evaluated.localData,
                   remoteData |-> evaluated.remoteData,
                   result |-> resolveUnder(evaluated.strategy, evaluated.localData,
                                           evaluated.remoteData)]
  /\ UNCHANGED <<links, masterKey, apiReturns, lifecycle, vectorClock, knownNodeIds,
                 messageTimestamps, db, versionHistory, notifications, storeQueue, network,
                 now, antiEntropy, putLog, drops, used>>

\* The tiebreak as each of two replicas calls it: the clock of the local
\* record against the clock of the remote one, and the converse.
Tiebreak ==
  /\ evaluated.fn = "input"
  /\ LET A == evaluated.localData
         B == evaluated.remoteData
     IN  evaluated' =
           [fn |-> "deterministicWinner", strategy |-> evaluated.strategy,
            localData |-> A, remoteData |-> B,
            atA |-> deterministicWinner(fromJSON(A.vectorClock), fromJSON(B.vectorClock),
                                        A.origin, B.origin),
            atB |-> deterministicWinner(fromJSON(B.vectorClock), fromJSON(A.vectorClock),
                                        B.origin, A.origin)]
  /\ UNCHANGED <<links, masterKey, apiReturns, lifecycle, vectorClock, knownNodeIds,
                 messageTimestamps, db, versionHistory, notifications, storeQueue, network,
                 now, antiEntropy, putLog, drops, used>>

NextResolve ==
  \/ Resolve
  \/ Tiebreak

SpecResolve == InitResolve /\ [][NextResolve]_vars

\* resolve was applied to exactly one tombstone and one record with a value.
OneTombstone ==
  /\ evaluated.fn = "resolve"
  /\ (evaluated.localData.value = Null) # (evaluated.remoteData.value = Null)

\* C15: when exactly one of the two records is a tombstone, the tombstone
\* wins unless the clock of the record with a value dominates the
\* tombstone's clock; in particular it wins when the clocks are concurrent
\* or identical, whichever side holds it.
TombstoneWins ==
  OneTombstone =>
    LET tombstone == IF evaluated.localData.value = Null
                       THEN evaluated.localData ELSE evaluated.remoteData
        live == IF evaluated.localData.value = Null
                  THEN evaluated.remoteData ELSE evaluated.localData
    IN  evaluated.result =
          IF dominanceRelation(live.vectorClock, tombstone.vectorClock) = "dominates"
            THEN live ELSE tombstone

\* C15: a tombstone met a record with a value and an identical clock, and
\* the record with the value was returned.
TombstoneLosesOnIdenticalClocks ==
  /\ OneTombstone
  /\ dominanceRelation(evaluated.localData.vectorClock, evaluated.remoteData.vectorClock)
       = "identical"
  /\ evaluated.result.value # Null

\* C16: deterministicWinner is symmetric: A.deterministicWinner(B, idA, idB)
\* picks A exactly when B.deterministicWinner(A, idB, idA) picks A.
DeterministicWinnerSymmetric ==
  evaluated.fn = "deterministicWinner" =>
    (evaluated.atA = "this" <=> evaluated.atB = "other")

\* C16: two concurrent clocks under the same id: the call at A picks B and
\* the call at B picks A.
EachSidePicksTheOther ==
  /\ evaluated.fn = "deterministicWinner"
  /\ evaluated.localData.origin = evaluated.remoteData.origin
  /\ dominanceRelation(evaluated.localData.vectorClock, evaluated.remoteData.vectorClock)
       = "concurrent"
  /\ evaluated.atA = "other"
  /\ evaluated.atB = "other"

\* resolve was applied to two records that both hold a value.
TwoValues ==
  /\ evaluated.fn = "resolve"
  /\ evaluated.localData.value # Null
  /\ evaluated.remoteData.value # Null

\* a's clock is at least b's on every key and larger on one.
Dominates(a, b) == ClockLeq(b.vectorClock, a.vectorClock) /\ ~ClockLeq(a.vectorClock, b.vectorClock)

\* C17: under vector-dominance and its alias last-write-wins, resolve on
\* two records with values returns the local record when its clock
\* dominates or equals the remote clock, the remote record when the remote
\* clock dominates, and for concurrent clocks the record deterministicWinner
\* picks on (local.origin, remote.origin).
VectorDominanceResolution ==
  TwoValues =>
    LET localData == evaluated.localData
        remoteData == evaluated.remoteData
    IN  evaluated.result =
          IF ClockLeq(remoteData.vectorClock, localData.vectorClock) THEN localData
          ELSE IF Dominates(remoteData, localData) THEN remoteData
          ELSE IF deterministicWinner(localData.vectorClock, remoteData.vectorClock,
                                      localData.origin, remoteData.origin) = "this"
                 THEN localData ELSE remoteData

\* C17: under the alias last-write-wins two records with values and
\* concurrent clocks met, and the tiebreak returned the local one.
TiebreakKeptLocal ==
  /\ TwoValues
  /\ evaluated.strategy = "last-write-wins"
  /\ ~ClockLeq(evaluated.remoteData.vectorClock, evaluated.localData.vectorClock)
  /\ ~ClockLeq(evaluated.localData.vectorClock, evaluated.remoteData.vectorClock)
  /\ evaluated.localData.origin = "n2"
  /\ evaluated.remoteData.origin = "n1"
  /\ evaluated.result = evaluated.localData
  /\ evaluated.result # evaluated.remoteData

HistoryClocks ==
  {[k \in {"n1"} |-> 1], [k \in {"n1"} |-> 2], [k \in {"n2"} |-> 1],
   [k \in {"n1", "n2"} |-> 1]}

HistoryEntries == [vectorClock : HistoryClocks, value : {"A"}, origin : Node]

InitHistory ==
  /\ InitNodes
  /\ links = {}

\* versionManager.addToVersionHistory(path, data) at a running node.
AddVersion(n, path, data) ==
  /\ ~isShuttingDown(n)
  /\ LET history == versionHistory[n][path]
         result == addToVersionHistory(history, data, configuredMaxVersions)
     IN  /\ versionHistory' = [versionHistory EXCEPT ![n][path] = result]
         /\ evaluated' = [fn |-> "addToVersionHistory", history |-> history, data |-> data,
                          result |-> result]
  /\ UNCHANGED <<links, masterKey, apiReturns, lifecycle, vectorClock, knownNodeIds,
                 messageTimestamps, db, notifications, storeQueue, network, now,
                 antiEntropy, putLog, drops, used>>

NextHistory == \E data \in HistoryEntries : AddVersion("n1", "p", data)

SpecHistory == InitHistory /\ [][NextHistory]_vars

\* Number of occurrences of x in a sequence.
Count(x, seq) == Cardinality({i \in DOMAIN seq : seq[i] = x})

\* The entries that were in `before` and are no longer in `after`.
Evicted(before, after) ==
  {before[i] : i \in {j \in DOMAIN before : Count(before[j], after) < Count(before[j], before)}}

\* C19: a history never holds more than maxVersions entries, and when an
\* append would exceed the limit the entry that is evicted is the one with
\* the smallest clock, the causally oldest: it dominates none of the
\* entries that are kept.
BoundedHistory ==
  /\ \A n \in Node, path \in Path : Len(versionHistory[n][path]) <= maxVersions
  /\ Len(versionHistory["n1"]["p"]) <= configuredMaxVersions
  /\ evaluated.fn = "addToVersionHistory" =>
       LET offered == Append(evaluated.history, evaluated.data)
       IN  /\ Cardinality(Evicted(offered, evaluated.result)) <= 1
           /\ \A gone \in Evicted(offered, evaluated.result) :
                \A i \in DOMAIN evaluated.result : ~Dominates(gone, evaluated.result[i])

\* C19: an append to a full history evicted an entry whose clock dominates
\* the clock of an entry that was kept.
EvictedDominatesKept ==
  /\ evaluated.fn = "addToVersionHistory"
  /\ Len(evaluated.history) = configuredMaxVersions
  /\ Len(evaluated.result) = configuredMaxVersions
  /\ \E gone \in Evicted(Append(evaluated.history, evaluated.data), evaluated.result) :
       \E i \in DOMAIN evaluated.result : Dominates(gone, evaluated.result[i])

\* C20: consecutive entries h[i], h[i+1] of every history are ordered:
\* the clock of h[i] dominates the clock of h[i+1], or the two are
\* concurrent and h[i] is the winner of the deterministic tiebreak.
VersionOrdering ==
  \A n \in Node, path \in Path :
    LET h == versionHistory[n][path]
    IN  \A i \in 1 .. Len(h) - 1 :
          \/ Dominates(h[i], h[i + 1])
          \/ /\ dominanceRelation(h[i].vectorClock, h[i + 1].vectorClock) = "concurrent"
             /\ deterministicWinner(h[i].vectorClock, h[i + 1].vectorClock,
                                    h[i].origin, h[i + 1].origin) = "this"

\* C20: two concurrent entries are stored with the loser of the tiebreak
\* first.
TiebreakLoserFirst ==
  LET h == versionHistory["n1"]["p"]
  IN  /\ Len(h) = 2
      /\ dominanceRelation(h[1].vectorClock, h[2].vectorClock) = "concurrent"
      /\ h[1].origin = "n1"
      /\ h[2].origin = "n2"
      /\ deterministicWinner(h[1].vectorClock, h[2].vectorClock, h[1].origin, h[2].origin)
           = "other"

\* ---------------------------------------------- sequential puts of one node
\* One node without peers; the caller awaits every put before the next.
InitSequential ==
  /\ InitNodes
  /\ links = {}

NextSequential ==
  \/ /\ storeQueue["n1"] = <<>>
     /\ \E value \in Value : LocalPut("n1", "p", value, MaxPutsSequential)
  \/ PutResolve("n1")
  \/ PutComplete("n1")

SpecSequential == InitSequential /\ [][NextSequential]_vars

\* The number of put() calls made.
PutsMade == Cardinality(DOMAIN putLog)

CompletesLocalPut(n) ==
  /\ storeQueue[n] # <<>>
  /\ Head(storeQueue[n]).op = "put"
  /\ Head(storeQueue[n]).data.origin = n
  /\ Head(storeQueue[n]).data.msgId.kind = "put"
  /\ lifecycle'[n] = lifecycle[n]
  /\ storeQueue'[n] = <<>> \/ Head(storeQueue'[n]) # Head(storeQueue[n])

\* C22: every completed local put(path, v), a rollback to the content of a
\* history entry included, establishes a new head: get(path) returns v, and
\* the clock of the new record strictly dominates the clock of the record
\* it replaced and of the history entry whose content it copied.
LocalPutEstablishesHead ==
  [][\A n \in Node :
       CompletesLocalPut(n) =>
         LET data == Head(storeQueue[n]).data
             h == versionHistory'[n][data.path]
         IN  /\ db'[n][data.path].value = data.value
             /\ data.path \in DOMAIN db[n] =>
                  Dominates(db'[n][data.path], db[n][data.path])
             /\ \A i \in DOMAIN h :
                  h[i].value = data.value => Dominates(db'[n][data.path], h[i])]_vars

\* C22: node n1 stored A, was restarted over its store, and then completed
\* a put of B; it still returns A.
PutAfterRestartLost ==
  /\ used.restarts = 1
  /\ lifecycle["n1"] = "up"
  /\ PutsMade = 2
  /\ putLog[1].value = "A"
  /\ putLog[2].value = "B"
  /\ putLog[2].seen = {}
  /\ storeQueue["n1"] = <<>>
  /\ get("n1", "p") = "A"

\* ------------------------------------------------------------ soft delete
\* A standalone node whose caller awaits each put and del before the next
\* call, and which may be closed and started again over its store.
InitDelete ==
  /\ InitNodes
  /\ links = {}

NextDelete ==
  \/ /\ storeQueue["n1"] = <<>>
     /\ \E value \in Value : LocalPut("n1", "p", value, MaxPutsRestart)
  \/ /\ isShuttingDown("n1") \/ storeQueue["n1"] = <<>>
     /\ del("n1", "p", MaxPutsRestart)
  \/ PutResolve("n1")
  \/ PutComplete("n1")
  \/ Close("n1")
  \/ CloseStore("n1")
  \/ Start("n1")

SpecDelete == InitDelete /\ [][NextDelete]_vars

\* The step is the return of true by a del of node n: the put of null that
\* del awaited has completed.
DelReturnsTrue(n) ==
  /\ CompletesLocalPut(n)
  /\ Head(storeQueue[n]).data.value = Null

\* C23: del(path) is a soft delete.  When the path holds a non-null value
\* del puts null locally and returns true: the record stays as a tombstone
\* whose clock dominates the deleted record's, and get returns null.  When
\* the path is missing or already a tombstone (and only then) del returns
\* false, and changes nothing.
SoftDelete ==
  [][/\ \A n \in Node :
          DelReturnsTrue(n) =>
            LET path == Head(storeQueue[n]).data.path
            IN  /\ path \in DOMAIN db[n]
                /\ path \in DOMAIN db'[n]
                /\ db'[n][path].value = Null
                /\ Dominates(db'[n][path], db[n][path])
     /\ \A r \in apiReturns' \ apiReturns :
          r.op = "del" /\ r.result = "false" =>
            /\ get(r.node, r.path) = Null
            /\ UNCHANGED <<db, vectorClock, versionHistory, storeQueue>>]_vars

\* C23: node n1 stored A, was restarted over its store, and del has put
\* null and returned true; the node still returns A.
DeletedValueStillRead ==
  /\ used.restarts = 1
  /\ lifecycle["n1"] = "up"
  /\ PutsMade = 2
  /\ putLog[1].value = "A"
  /\ putLog[2].value = Null
  /\ putLog[2].seen = {}
  /\ storeQueue["n1"] = <<>>
  /\ get("n1", "p") = "A"

\* ---------------------------------------------------------- subscriptions
\* Every variable but `evaluated` as construction leaves it: the state in
\* which a function under study is applied to an input.
NodesIdle ==
  /\ links = {}
  /\ masterKey = [n \in Node |-> "none"]
  /\ lifecycle = [n \in Node |-> "up"]
  /\ vectorClock = [n \in Node |-> increment(EmptyFn, n)]
  /\ knownNodeIds = [n \in Node |-> {n}]
  /\ messageTimestamps = [n \in Node |-> EmptyFn]
  /\ db = [n \in Node |-> EmptyFn]
  /\ versionHistory = [n \in Node |-> [p \in Path |-> <<>>]]
  /\ notifications = [n \in Node |-> <<>>]
  /\ storeQueue = [n \in Node |-> <<>>]
  /\ network = {}
  /\ now = TickMs
  /\ antiEntropy = [n \in Node |-> [isRunning |-> FALSE, lastRunTime |-> 0, peers |-> {}]]
  /\ putLog = EmptyFn
  /\ drops = {}
  /\ apiReturns = {}
  /\ used = [puts |-> 0, dups |-> 0, ticks |-> 0, restarts |-> 0, syncs |-> 0, runs |-> 0,
             limited |-> 0]

\* Path strings as sequences of characters, "/" separating the segments.
Chars == {"a", "b", "/"}

PathStrings == UNION {[1 .. k -> Chars] : k \in 0 .. MaxPathLen}

\* String.prototype.split("/"): the segments between the separators; a
\* string without separator gives one segment, the empty string included.
RECURSIVE split(_)
split(s) ==
  IF \A i \in DOMAIN s : s[i] # "/" THEN <<s>>
  ELSE LET i == CHOOSE k \in DOMAIN s : s[k] = "/" /\ \A j \in 1 .. k - 1 : s[j] # "/"
       IN  <<SubSeq(s, 1, i - 1)>> \o split(SubSeq(s, i + 1, Len(s)))

\* String.prototype.startsWith.
startsWith(s, prefix) ==
  Len(prefix) <= Len(s) /\ SubSeq(s, 1, Len(prefix)) = prefix

\* A matcher that compares the strings instead of their segments.
isPathMatchByCharacters(path, subscribedPath) ==
  startsWith(path, subscribedPath) \/ startsWith(subscribedPath, path)

\* SubscriptionManager._isPathMatch.
isPathMatch(path, subscribedPath) ==
  LET pathParts == split(path)
      subscribedParts == split(subscribedPath)
  IN  IF path = subscribedPath THEN TRUE
      ELSE IF Len(pathParts) > Len(subscribedParts)
        THEN \A i \in 1 .. Len(subscribedParts) : subscribedParts[i] = pathParts[i]
      ELSE IF Len(subscribedParts) > Len(pathParts)
        THEN \A i \in 1 .. Len(pathParts) : pathParts[i] = subscribedParts[i]
      ELSE FALSE

\* The subscription maps with at most two subscribed paths, each with one
\* callback.
SubscriptionMaps == {{}} \cup {{x, y} : x, y \in PathStrings}

\* A path is about to be notified, on a node that is running or shutting
\* down.
InitNotify ==
  /\ NodesIdle
  /\ \E path \in PathStrings, subscriptions \in SubscriptionMaps,
        shuttingDown \in BOOLEAN :
       evaluated = [fn |-> "input", path |-> path, subscriptions |-> subscriptions,
                    isShuttingDown |-> shuttingDown]

\* SubscriptionManager.notifySubscribers: `invoked` is the set of
\* subscribed paths whose callback was called.
Notify ==
  /\ evaluated.fn = "input"
  /\ evaluated' =
       [fn |-> "notifySubscribers", path |-> evaluated.path,
        subscriptions |-> evaluated.subscriptions,
        isShuttingDown |-> evaluated.isShuttingDown,
        invoked |-> IF evaluated.isShuttingDown THEN {}
                    ELSE {subscribedPath \in evaluated.subscriptions :
                            isPathMatch(evaluated.path, subscribedPath)}]
  /\ UNCHANGED <<links, masterKey, apiReturns, lifecycle, vectorClock, knownNodeIds,
                 messageTimestamps, db, versionHistory, notifications, storeQueue, network,
                 now, antiEntropy, putLog, drops, used>>

SpecNotify == InitNotify /\ [][Notify]_vars

\* descendant continues ancestor after a separator: ancestor, "/", the rest.
SegmentAncestor(ancestor, descendant) ==
  /\ Len(descendant) > Len(ancestor)
  /\ SubSeq(descendant, 1, Len(ancestor)) = ancestor
  /\ descendant[Len(ancestor) + 1] = "/"

RawClocks == UNION {[S -> -1 .. MaxCounter] : S \in SUBSET ClockIds}

ClockInputs ==
  {[kind |-> "object", clock |-> c] : c \in RawClocks}
    \cup {[kind |-> k] : k \in {"null", "undefined", "number", "string"}}

\* ClockSerializer.compare from its entry: the input-type dispatch, then the
\* comparison over the union of the keys.
compareInput(c, otherClock) ==
  IF otherClock.kind = "object" THEN compare(c, otherClock.clock) ELSE 0

InitCompare ==
  /\ NodesIdle
  /\ \E c \in Clocks, otherClock \in ClockInputs :
       evaluated = [fn |-> "input", clock |-> c, otherClock |-> otherClock]

Compare ==
  /\ evaluated.fn = "input"
  /\ evaluated' = [fn |-> "compare", clock |-> evaluated.clock,
                   otherClock |-> evaluated.otherClock,
                   result |-> compareInput(evaluated.clock, evaluated.otherClock)]
  /\ UNCHANGED <<links, masterKey, apiReturns, lifecycle, vectorClock, knownNodeIds,
                 messageTimestamps, db, versionHistory, notifications, storeQueue, network,
                 now, antiEntropy, putLog, drops, used>>

SpecCompare == InitCompare /\ [][Compare]_vars

\* C25: compare(A, B), absent keys read as 0, returns Before (-1) iff A <= B
\* on every key and A < B on one, After (1) iff A >= B on every key and
\* A > B on one, Identical (2) iff all are equal, Concurrent (0) otherwise;
\* against a null or non-object clock it returns Concurrent.
CompareClassifies ==
  evaluated.fn = "compare" =>
    IF evaluated.otherClock.kind # "object" THEN evaluated.result = 0
    ELSE LET A == evaluated.clock
             B == evaluated.otherClock.clock
             a(k) == IF k \in DOMAIN A THEN A[k] ELSE 0
             b(k) == IF k \in DOMAIN B THEN B[k] ELSE 0
             allLeq == \A k \in ClockIds : a(k) <= b(k)
             allGeq == \A k \in ClockIds : a(k) >= b(k)
             oneLess == \E k \in ClockIds : a(k) < b(k)
             oneMore == \E k \in ClockIds : a(k) > b(k)
         IN  /\ evaluated.result = -1 <=> allLeq /\ oneLess
             /\ evaluated.result = 1 <=> allGeq /\ oneMore
             /\ evaluated.result = 2 <=> \A k \in ClockIds : a(k) = b(k)
             /\ evaluated.result = 0 <=> oneLess /\ oneMore

\* C25: {n1:1} compared with {n1:1, n2:1}, a key this clock lacks, is Before.
BeforeByAbsentKey ==
  /\ evaluated.fn = "compare"
  /\ evaluated.clock = [k \in {"n1"} |-> 1]
  /\ evaluated.otherClock = [kind |-> "object", clock |-> [k \in {"n1", "n2"} |-> 1]]
  /\ evaluated.result = -1

\* ------------------------------------------------------------ clock merge
\* ClockOperations.merge from its entry: an argument that is no object
\* gives a clone of this clock, otherwise the merge over the union of keys.
mergeInput(c, otherClock) ==
  IF otherClock.kind = "object" THEN merge(c, otherClock.clock) ELSE c

InitMerge ==
  /\ NodesIdle
  /\ \E A \in Clocks, B \in Clocks, C \in Clocks, otherClock \in ClockInputs :
       evaluated = [fn |-> "input", A |-> A, B |-> B, C |-> C, otherClock |-> otherClock]

\* The merges of three VectorClock objects A, B and C in the groupings
\* under study, and of A with an arbitrary argument.  merge builds its
\* result in a new VectorClock and assigns to no key of this clock or of its
\* argument: the objects A and B hold after the calls what they held before.
Merge ==
  /\ evaluated.fn = "input"
  /\ LET A == evaluated.A
         B == evaluated.B
         C == evaluated.C
     IN  evaluated' =
           [fn |-> "merge", A |-> A, B |-> B, C |-> C, otherClock |-> evaluated.otherClock,
            AB |-> merge(A, B), BA |-> merge(B, A), AA |-> merge(A, A),
            AB_C |-> merge(merge(A, B), C), A_BC |-> merge(A, merge(B, C)),
            withInput |-> mergeInput(A, evaluated.otherClock),
            afterA |-> A, afterB |-> B]
  /\ UNCHANGED <<links, masterKey, apiReturns, lifecycle, vectorClock, knownNodeIds,
                 messageTimestamps, db, versionHistory, notifications, storeQueue, network,
                 now, antiEntropy, putLog, drops, used>>

SpecMerge == InitMerge /\ [][Merge]_vars

\* C26: merge(A, B) is the pointwise maximum over the union of the keys;
\* the result is at least both inputs; merge is commutative, associative
\* and idempotent; and neither input clock is modified.
MergeIsPointwiseMax ==
  evaluated.fn = "merge" =>
    LET A == evaluated.A
        B == evaluated.B
        AB == evaluated.AB
    IN  /\ DOMAIN AB = DOMAIN A \cup DOMAIN B
        /\ \A k \in DOMAIN AB :
             LET a == IF k \in DOMAIN A THEN A[k] ELSE 0
                 b == IF k \in DOMAIN B THEN B[k] ELSE 0
             IN  AB[k] = IF a >= b THEN a ELSE b
        /\ \A k \in DOMAIN A : AB[k] >= A[k]
        /\ \A k \in DOMAIN B : AB[k] >= B[k]
        /\ AB = evaluated.BA
        /\ evaluated.AB_C = evaluated.A_BC
        /\ evaluated.AA = A
        /\ evaluated.afterA = A
        /\ evaluated.afterB = B

\* C26: {n1:2} merged with {n1:1, n2:1} gave {n1:2, n2:1}.
MergedAcrossKeys ==
  /\ evaluated.fn = "merge"
  /\ evaluated.A = [k \in {"n1"} |-> 2]
  /\ evaluated.B = [k \in {"n1", "n2"} |-> 1]
  /\ evaluated.AB = [k \in {"n1", "n2"} |-> IF k = "n1" THEN 2 ELSE 1]

\* ------------------------------------------------------ strategy selection
\* Array.prototype.join("/") on a list of segments.
RECURSIVE join(_)
join(parts) ==
  IF Len(parts) = 0 THEN <<>>
  ELSE IF Len(parts) = 1 THEN parts[1]
  ELSE parts[1] \o <<"/">> \o join(Tail(parts))

\* The element of the non-empty set S of strings that is longest.
Longest(S) == CHOOSE x \in S : \A y \in S : Len(y) <= Len(x)

defaultStrategy == "vector-dominance"

\* StrategyManager.getStrategyForPath.  pathStrategies is a function from
\* the registered prefixes to their strategy names.  Both searches keep a
\* candidate only when it is longer than the best so far, which starts at
\* length 0.
getStrategyForPath(pathStrategies, path) ==
  LET pathParts == split(path)
      partialPaths == {join(SubSeq(pathParts, 1, i)) : i \in 1 .. Len(pathParts)}
      segmentMatches == {x \in partialPaths : x \in DOMAIN pathStrategies /\ Len(x) > 0}
      prefixMatches == {prefix \in DOMAIN pathStrategies :
                          /\ startsWith(path, prefix \o <<"/">>) \/ path = prefix
                          /\ Len(prefix) > 0}
  IN  IF path \in DOMAIN pathStrategies THEN pathStrategies[path]
      ELSE IF segmentMatches # {} THEN pathStrategies[Longest(segmentMatches)]
      ELSE IF prefixMatches # {} THEN pathStrategies[Longest(prefixMatches)]
      ELSE defaultStrategy

\* A resolver constructed with at most one entry in options.pathStrategies
\* and no custom resolver.
InitStrategy ==
  /\ NodesIdle
  /\ \E pathStrategies \in
          {EmptyFn} \cup UNION {[{prefix} -> {"first-write-wins", "merge-fields"}] :
                                  prefix \in PathStrings} :
       evaluated = [fn |-> "ConflictResolver", pathStrategies |-> pathStrategies,
                    customResolvers |-> {}]

\* ConflictResolver.registerCustomResolver(pathPrefix, resolverFn).
registerCustomResolver(pathPrefix) ==
  /\ evaluated.fn = "ConflictResolver"
  /\ evaluated.customResolvers = {}
  /\ evaluated' =
       [evaluated EXCEPT
          !.customResolvers = @ \cup {pathPrefix},
          !.pathStrategies = [x \in DOMAIN @ \cup {pathPrefix} |->
                                IF x = pathPrefix THEN "custom" ELSE @[x]]]
  /\ UNCHANGED <<links, masterKey, apiReturns, lifecycle, vectorClock, knownNodeIds,
                 messageTimestamps, db, versionHistory, notifications, storeQueue, network,
                 now, antiEntropy, putLog, drops, used>>

\* ConflictResolver.getStrategyForPath(path), its result recorded.
GetStrategy(path) ==
  /\ evaluated.fn = "ConflictResolver"
  /\ evaluated' = [fn |-> "getStrategyForPath",
                   pathStrategies |-> evaluated.pathStrategies,
                   customResolvers |-> evaluated.customResolvers,
                   path |-> path,
                   result |-> getStrategyForPath(evaluated.pathStrategies, path)]
  /\ UNCHANGED <<links, masterKey, apiReturns, lifecycle, vectorClock, knownNodeIds,
                 messageTimestamps, db, versionHistory, notifications, storeQueue, network,
                 now, antiEntropy, putLog, drops, used>>

NextStrategy ==
  \/ \E pathPrefix \in PathStrings : registerCustomResolver(pathPrefix)
  \/ \E path \in PathStrings : GetStrategy(path)

SpecStrategy == InitStrategy /\ [][NextStrategy]_vars

\* C27: getStrategyForPath(path) returns the strategy of the longest
\* registered prefix that equals path or is a whole-segment prefix of it,
\* and the default strategy when none matches; a prefix registered with a
\* custom resolver selects the custom strategy.
LongestPrefixStrategy ==
  evaluated.fn = "getStrategyForPath" =>
    LET registered == evaluated.pathStrategies
        matching == {prefix \in DOMAIN registered :
                       prefix = evaluated.path \/ SegmentAncestor(prefix, evaluated.path)}
    IN  /\ evaluated.result =
             IF matching = {} THEN defaultStrategy ELSE registered[Longest(matching)]
        /\ evaluated.path \in evaluated.customResolvers => evaluated.result = "custom"

\* C27: the prefix "" is registered, the path /a continues it after a
\* separator, and the default strategy was returned.
EmptyPrefixNotSelected ==
  /\ evaluated.fn = "getStrategyForPath"
  /\ evaluated.path = <<"/", "a">>
  /\ DOMAIN evaluated.pathStrategies = {<<>>}
  /\ evaluated.pathStrategies[<<>>] = "first-write-wins"
  /\ evaluated.result = defaultStrategy

\* ------------------------------------------------------ envelope round trip
\* Payloads given to SecurityManager.encrypt: a string, an object (here the
\* empty object and the empty array) or a Buffer.  Texts and byte strings
\* are sequences of characters; utf8 maps each of these characters to one
\* byte.
PayloadChars == {"x", "{", "}", "[", "]"}

Texts == UNION {[1 .. k -> PayloadChars] : k \in 0 .. MaxPayloadLen}

Payloads ==
  {[type |-> "string", content |-> t] : t \in Texts}
    \cup {[type |-> "buffer", content |-> t] : t \in Texts}
    \cup {[type |-> "object", content |-> o] : o \in {"{}", "[]"}}

\* JSON.stringify of the objects above.
stringify(object) == IF object = "{}" THEN <<"{", "}">> ELSE <<"[", "]">>

\* JSON.parse: the object a text denotes, "SyntaxError" for any other text.
parse(text) ==
  IF text = <<"{", "}">> THEN "{}"
  ELSE IF text = <<"[", "]">> THEN "[]"
  ELSE "SyntaxError"

\* _deriveKey: PBKDF2 of the master key and the salt.
deriveKey(master, salt) == [masterKey |-> master, salt |-> salt]

\* SecurityManager.encrypt with the salt and iv that randomBytes returned.
\* AES-256-GCM is kept symbolic: the ciphertext is as long as the
\* plaintext and is a term of key, iv and plaintext, the tag
\* authenticates that term; `altered` marks bytes changed after encryption.
encryptPayload(master, salt, iv, data) ==
  LET key == deriveKey(master, salt)
      isBuffer == data.type = "buffer"
      dataBuffer == IF data.type = "object" THEN stringify(data.content) ELSE data.content
      sealed == [key |-> key, iv |-> iv, plaintext |-> dataBuffer, altered |-> FALSE]
  IN  [encrypted |-> TRUE, salt |-> salt, iv |-> iv, authTag |-> sealed,
       ciphertext |-> sealed, isBuffer |-> isBuffer]

\* SecurityManager.decrypt for an envelope marked encrypted, security
\* enabled.  An empty ciphertext string fails the required-fields check;
\* decipher.final() throws unless key, iv, ciphertext and tag are the ones
\* of one encryption; the plaintext is returned as a Buffer when isBuffer
\* is set, parsed as JSON when it starts with "{" or "[" (as a Buffer when
\* the parse throws), and as a string otherwise.
decrypt(master, encryptedData) ==
  LET key == deriveKey(master, encryptedData.salt)
      ciphertext == encryptedData.ciphertext
      decrypted == ciphertext.plaintext
  IN  IF \/ Len(ciphertext.plaintext) = 0
         \/ ciphertext.altered
         \/ ciphertext.key # key
         \/ ciphertext.iv # encryptedData.iv
         \/ encryptedData.authTag # ciphertext
        THEN [ok |-> FALSE]
      ELSE IF encryptedData.isBuffer
        THEN [ok |-> TRUE, payload |-> [type |-> "buffer", content |-> decrypted]]
      ELSE IF decrypted[1] \in {"{", "["}
        THEN IF parse(decrypted) # "SyntaxError"
               THEN [ok |-> TRUE, payload |-> [type |-> "object", content |-> parse(decrypted)]]
               ELSE [ok |-> TRUE, payload |-> [type |-> "buffer", content |-> decrypted]]
      ELSE [ok |-> TRUE, payload |-> [type |-> "string", content |-> decrypted]]

InitEnvelope ==
  /\ NodesIdle
  /\ \E data \in Payloads : evaluated = [fn |-> "input", data |-> data]

\* encrypt under the master key K1.
EncryptEnvelope ==
  /\ evaluated.fn = "input"
  /\ evaluated' = [fn |-> "encrypt", data |-> evaluated.data, changed |-> "nothing",
                   envelope |-> encryptPayload("K1", "salt1", "iv1", evaluated.data)]
  /\ UNCHANGED <<links, masterKey, apiReturns, lifecycle, vectorClock, knownNodeIds,
                 messageTimestamps, db, versionHistory, notifications, storeQueue, network,
                 now, antiEntropy, putLog, drops, used>>

\* One field of the envelope is changed on its way.
ChangeEnvelope(field) ==
  /\ evaluated.fn = "encrypt"
  /\ evaluated.changed = "nothing"
  /\ evaluated' =
       [evaluated EXCEPT
          !.changed = field,
          !.envelope =
             CASE field = "ciphertext" -> [@ EXCEPT !.ciphertext.altered = TRUE]
               [] field = "authTag" -> [@ EXCEPT !.authTag.altered = TRUE]
               [] field = "iv" -> [@ EXCEPT !.iv = "iv2"]
               [] field = "salt" -> [@ EXCEPT !.salt = "salt2"]]
  /\ UNCHANGED <<links, masterKey, apiReturns, lifecycle, vectorClock, knownNodeIds,
                 messageTimestamps, db, versionHistory, notifications, storeQueue, network,
                 now, antiEntropy, putLog, drops, used>>

\* decrypt by a SecurityManager constructed with the given master key.
DecryptEnvelope(master) ==
  /\ evaluated.fn = "encrypt"
  /\ evaluated' = [fn |-> "decrypt", data |-> evaluated.data, changed |-> evaluated.changed,
                   envelope |-> evaluated.envelope, master |-> master,
                   result |-> decrypt(master, evaluated.envelope)]
  /\ UNCHANGED <<links, masterKey, apiReturns, lifecycle, vectorClock, knownNodeIds,
                 messageTimestamps, db, versionHistory, notifications, storeQueue, network,
                 now, antiEntropy, putLog, drops, used>>

NextEnvelope ==
  \/ EncryptEnvelope
  \/ \E field \in {"ciphertext", "authTag", "iv", "salt"} : ChangeEnvelope(field)
  \/ \E master \in {"K1", "K2"} : DecryptEnvelope(master)

SpecEnvelope == InitEnvelope /\ [][NextEnvelope]_vars

\* C28: decrypt_K(encrypt_K(x)) = x for a string, an object and a byte
\* buffer; decrypting with a different key, or after any change to
\* ciphertext, authTag, iv or salt, fails and returns no payload.
EnvelopeRoundTrip ==
  evaluated.fn = "decrypt" =>
    IF evaluated.master = "K1" /\ evaluated.changed = "nothing"
      THEN evaluated.result = [ok |-> TRUE, payload |-> evaluated.data]
      ELSE evaluated.result = [ok |-> FALSE]

\* C28: the string "{}" was encrypted and decrypted under one key and came
\* back as an object.
StringCameBackAsObject ==
  /\ evaluated.fn = "decrypt"
  /\ evaluated.master = "K1"
  /\ evaluated.changed = "nothing"
  /\ evaluated.data = [type |-> "string", content |-> <<"{", "}">>]
  /\ evaluated.result = [ok |-> TRUE, payload |-> [type |-> "object", content |-> "{}"]]

\* ------------------------------------- anti-entropy records stay local
\* C29: applying a record received in an anti-entropy response (handlePut
\* with antiEntropy = true) never makes the receiving node broadcast a put
\* to its peers, whatever the outcome of conflict resolution.
AntiEntropyNotPropagated ==
  [][\A n \in Node :
       /\ storeQueue[n] # <<>>
       /\ Head(storeQueue[n]).op = "put"
       /\ Head(storeQueue[n]).data.msgId.kind = "anti-entropy"
       => \A m \in network' \ network : ~(m.event = "put" /\ m.from = n)]_vars

\* C29: n2, connected to both peers, has applied the records of an
\* anti-entropy response for both paths, and no put is in flight.
AppliedWithoutBroadcast ==
  /\ lifecycle["n2"] = "up"
  /\ sockets("n2") # {}
  /\ storeQueue["n2"] = <<>>
  /\ \E id \in processedMessages("n2") : id.kind = "anti-entropy" /\ id.path = "p"
  /\ \E id \in processedMessages("n2") : id.kind = "anti-entropy" /\ id.path = "q"
  /\ get("n2", "p") = "A"
  /\ get("n2", "q") = "B"
  /\ \A m \in network : m.event # "put"

\* ------------------------------------------- overlapping handlePut calls
\* C30: two handlePut calls of one node for the same path do not overlap
\* between read and write: no write to the path is committed between one
\* call's read of the existing record and that call's own store write, so
\* the record finally stored is the one that processing the two messages
\* one after the other would store.  A call has read and not yet written
\* while its db.put waits in the store's queue; the store serves in order,
\* so two waiting writes to one path mean that the first is committed
\* between the read and the write of the second.
ReadToWriteIsolated ==
  \A n \in Node :
    \A i, j \in DOMAIN storeQueue[n] :
      i < j /\ storeQueue[n][i].op = "put" /\ storeQueue[n][j].op = "put"
        => storeQueue[n][i].data.path # storeQueue[n][j].data.path

\* C30: n2 has processed its own put of B and the put of A that n1 sent
\* before it heard of B (the only two puts), and is idle.  It stores A with
\* an empty version history: neither call saw the other's record.  In
\* either sequential order the second call finds the first record and B
\* is kept.
StaleReadOverwrote ==
  /\ storeQueue["n2"] = <<>>
  /\ PutsMade = 2
  /\ \E a, b \in DOMAIN putLog :
       /\ putLog[a] = [origin |-> "n1", path |-> "p", value |-> "A", seen |-> {}]
       /\ putLog[b] = [origin |-> "n2", path |-> "p", value |-> "B", seen |-> {}]
       /\ PutId("n1", a) \in processedMessages("n2")
       /\ PutId("n2", b) \in processedMessages("n2")
       /\ PutId("n2", b) \notin processedMessages("n1")
  /\ versionHistory["n2"]["p"] = <<>>
  /\ get("n2", "p") = "A"

\* ------------------------------------------------ causally ordered writes
\* n1 and n2 are peers.  n2 writes p = A; n1 writes p = B after it has
\* applied A, so B is causally newer than A, and may then write q.  Put
\* messages may be lost, and n1 may run anti-entropy against n2.
RollbackNodes == {"n1", "n2"}

InitRollback ==
  /\ InitNodes
  /\ links = Mesh(RollbackNodes)

\* Some put of the given value to the path has been called.
Issued(path, value) ==
  \E k \in DOMAIN putLog : putLog[k].path = path /\ putLog[k].value = value

LosePut == \E m \in network : m.event = "put" /\ network' = network \ {m}

NextRollback ==
  \/ ~Issued("p", "A") /\ LocalPut("n2", "p", "A", MaxPutsRollback)
  \/ /\ get("n1", "p") = "A"
     /\ ~Issued("p", "B")
     /\ LocalPut("n1", "p", "B", MaxPutsRollback)
  \/ /\ Issued("p", "B")
     /\ ~Issued("q", "A")
     /\ LocalPut("n1", "q", "A", MaxPutsRollback)
  \/ \E n \in RollbackNodes : PutResolve(n)
  \/ \E n \in RollbackNodes : PutComplete(n)
  \/ DeliverPut
  \/ LosePut /\ UNCHANGED <<links, masterKey, apiReturns, evaluated, antiEntropy, lifecycle,
                            vectorClock, knownNodeIds, messageTimestamps, db, versionHistory,
                            notifications, storeQueue, now, putLog, drops, used>>
  \/ Issued("p", "B") /\ AntiEntropyRun("n1")
  \/ \E syncSkipped \in BOOLEAN : AntiEntropyRequests("n1", syncSkipped)
  \/ DeliverSync
  \/ DeliverSyncResponse
  \/ DeliverAntiEntropyRequest
  \/ \E n \in RollbackNodes : SendResponse(n)
  \/ DeliverAntiEntropyResponse

SpecRollback == InitRollback /\ [][NextRollback]_vars

\* C31: anti-entropy never rolls a path back.  The requester n1 stores B,
\* written after n1 had applied A; when it completes the handlePut of a
\* record of an anti-entropy response, it still stores B.
AntiEntropyNoRollback ==
  [][/\ storeQueue["n1"] # <<>>
     /\ Head(storeQueue["n1"]).op = "put"
     /\ Head(storeQueue["n1"]).data.msgId.kind = "anti-entropy"
     /\ get("n1", "p") = "B"
     => get("n1", "p")' = "B"]_vars

\* C31: n1 has written B over A and then q; it has processed the
\* anti-entropy response of n2, which never received B.  The handlePut of
\* the response read B (B is in the version history) and stored A.
RolledBackByAntiEntropy ==
  /\ Issued("p", "B")
  /\ Issued("q", "A")
  /\ get("n2", "p") = "A"
  /\ \A k \in DOMAIN putLog :
       putLog[k].value = "B" => PutId("n1", k) \notin processedMessages("n2")
  /\ \E id \in processedMessages("n1") : id.kind = "anti-entropy" /\ id.path = "p"
  /\ storeQueue["n1"] = <<>>
  /\ \E i \in DOMAIN versionHistory["n1"]["p"] : versionHistory["n1"]["p"][i].value = "B"
  /\ get("n1", "p") = "A"

\* ------------------------------------------------ gossip through a ring
\* Four peers in a ring: n2 and n1 write, n3 forwards, n4 receives the
\* writes of both from its two neighbours.
Ring == {<<"n2", "n1">>, <<"n1", "n2">>, <<"n1", "n4">>, <<"n4", "n1">>,
         <<"n4", "n3">>, <<"n3", "n4">>, <<"n3", "n2">>, <<"n2", "n3">>}

InitForward ==
  /\ InitNodes
  /\ links = Ring

\* The connection from one peer to another drops a message.
LoseOn(from, to) ==
  /\ \E m \in network : m.from = from /\ m.to = to /\ network' = network \ {m}
  /\ UNCHANGED <<links, masterKey, apiReturns, evaluated, antiEntropy, lifecycle,
                 vectorClock, knownNodeIds, messageTimestamps, db, versionHistory,
                 notifications, storeQueue, now, putLog, drops, used>>

\* n2 puts A at p; n1 puts B at p once it reads A there; the connection
\* from n1 to n4 is the lossy one.
NextForward ==
  \/ ~Issued("p", "A") /\ LocalPut("n2", "p", "A", MaxPuts)
  \/ /\ get("n1", "p") = "A"
     /\ ~Issued("p", "B")
     /\ LocalPut("n1", "p", "B", MaxPuts)
  \/ \E n \in Node : PutResolve(n)
  \/ \E n \in Node : PutComplete(n)
  \/ DeliverPut
  \/ LoseOn("n1", "n4")

SpecForward == InitForward /\ [][NextForward]_vars

\* The k2-th put was issued by a node that had handled the k1-th put, to
\* the same path.
IssuedAfter(k2, k1) ==
  /\ putLog[k1].path = putLog[k2].path
  /\ PutId(putLog[k1].origin, k1) \in putLog[k2].seen

\* C32: gossip never rolls a path back: a node that stores the value of a
\* put w2 issued by a node that had applied the put w1 to the same path
\* does not go back to the value of w1, from whomever the message of w1
\* arrives.
GossipNoRollback ==
  [][\A n \in Node : \A k1, k2 \in DOMAIN putLog :
       /\ IssuedAfter(k2, k1)
       /\ get(n, putLog[k2].path) = putLog[k2].value
       => get(n, putLog[k2].path)' # putLog[k1].value]_vars

\* n4 has applied B and then the message of A that n3 forwarded: it read
\* B, moved it to the version history and stored A.
RolledBackByForward ==
  /\ get("n4", "p") = "A"
  /\ storeQueue["n4"] = <<>>
  /\ \E i \in DOMAIN versionHistory["n4"]["p"] : versionHistory["n4"]["p"][i].value = "B"
  /\ get("n1", "p") = "B"

\* C33: local writes keep taking effect across a restart: on a node that
\* was closed and started again over its store, a put(path, v) to a path
\* that holds a record, handled alone, makes get(path) return v.
WritesTakeEffectAfterRestart ==
  [][/\ used.restarts = 1
     /\ lifecycle["n1"] = "up"
     /\ CompletesLocalPut("n1")
     /\ Len(storeQueue["n1"]) = 1
     /\ Head(storeQueue["n1"]).data.path \in DOMAIN db["n1"]
     => LET data == Head(storeQueue["n1"]).data
        IN  db'["n1"][data.path].value = data.value]_vars

\* C33: the started node has handled a put of its own to the end, and get
\* returns the other value, the one its store held before.
PersistedValueShadowsPut ==
  /\ used.restarts = 1
  /\ lifecycle["n1"] = "up"
  /\ storeQueue["n1"] = <<>>
  /\ \E k \in DOMAIN putLog :
       /\ PutId("n1", k) \in processedMessages("n1")
       /\ \A j \in DOMAIN putLog : PutId("n1", j) \in processedMessages("n1") => j = k
       /\ get("n1", "p") # putLog[k].value

\* ------------------------------------------------- incomplete messages
\* A field the sender left out of a wire message is a key the record does
\* not have.
Has(data, field) == field \in DOMAIN data

\* What handlePut works with when origin or vectorClock is missing: the
\* origin defaults to the receiving node and the clock to {origin: 1}.
\* (The copy that is forwarded is modelled with the defaults filled in.)
Defaulted(n, data) ==
  LET origin == IF Has(data, "origin") THEN data.origin ELSE n
  IN  [path |-> data.path, value |-> data.value, msgId |-> data.msgId,
       origin |-> origin,
       vectorClock |-> IF Has(data, "vectorClock") THEN data.vectorClock
                       ELSE [k \in {origin} |-> 1],
       visitedServers |-> data.visitedServers, antiEntropy |-> data.antiEntropy]

\* Wire messages from the peer n2 to n1, each with one required field
\* left out.
PeerClock == increment(increment(EmptyFn, "n2"), "n2")
PeerRequest == [node |-> "n2", peer |-> "n1", seq |-> 0]
PeerChanges == <<[path |-> "q", value |-> "B", origin |-> "n2", vectorClock |-> PeerClock]>>

IncompleteMessages ==
  {Message("n1", "n2", "put", data) : data \in
     {[path |-> "q", value |-> "B", msgId |-> PutId("n2", 0), vectorClock |-> PeerClock,
       visitedServers |-> {"n2"}, antiEntropy |-> FALSE],
      [path |-> "q", value |-> "B", msgId |-> PutId("n2", 0), origin |-> "n2",
       visitedServers |-> {"n2"}, antiEntropy |-> FALSE]}}
  \cup {Message("n1", "n2", event, data) :
          event \in {"vector-clock-sync", "vector-clock-sync-response"},
          data \in {[vectorClock |-> PeerClock, isAntiEntropy |-> TRUE],
                    [nodeId |-> "n2", isAntiEntropy |-> TRUE]}}
  \cup {Message("n1", "n2", "anti-entropy-request", data) : data \in
          {[requestId |-> PeerRequest, vectorClock |-> PeerClock, path |-> ""],
           [requestId |-> PeerRequest, nodeId |-> "n2", path |-> ""]}}
  \cup {Message("n1", "n2", "anti-entropy-response", data) : data \in
          {[responseId |-> PeerRequest, vectorClock |-> PeerClock, changes |-> PeerChanges],
           [responseId |-> PeerRequest, nodeId |-> "n2", changes |-> PeerChanges]}}

\* The peer sends one of them.
SendIncomplete ==
  /\ evaluated = NoCall
  /\ \E m \in IncompleteMessages :
       /\ evaluated' = [fn |-> "incomplete", message |-> m]
       /\ network' = network \cup {m}
  /\ UNCHANGED <<links, masterKey, apiReturns, lifecycle, vectorClock, knownNodeIds,
                 messageTimestamps, db, versionHistory, notifications, storeQueue, now,
                 antiEntropy, putLog, drops, used>>

\* The message reaches the handler of its event.  put: handlePut has no
\* check of the fields.  vector-clock-sync, its response and
\* anti-entropy-request: without nodeId or vectorClock the handler logs
\* and returns.  anti-entropy-response: nodeId is required, vectorClock is
\* not; without it no clock is merged and every change goes to handlePut
\* with the vectorClock of the response, which is missing.
ReceiveIncomplete ==
  /\ evaluated # NoCall
  /\ evaluated.message \in network
  /\ LET m == evaluated.message
         n == m.to
     IN  /\ lifecycle[n] = "up"
         /\ network' = network \ {m}
         /\ IF m.event = "put"
              THEN /\ PutBegin(n, Defaulted(n, m.data))
                   /\ UNCHANGED knownNodeIds
              ELSE IF m.event = "anti-entropy-response" /\ Has(m.data, "nodeId")
                THEN /\ knownNodeIds' = [knownNodeIds EXCEPT ![n] = @ \cup {m.data.nodeId}]
                     /\ StartPuts(n, storeQueue[n],
                                  [i \in DOMAIN m.data.changes |->
                                     Defaulted(n,
                                       [path |-> m.data.changes[i].path,
                                        value |-> m.data.changes[i].value,
                                        msgId |-> AntiEntropyId(m.data.responseId,
                                                                m.data.changes[i].path),
                                        origin |-> m.data.changes[i].origin,
                                        visitedServers |-> {}, antiEntropy |-> TRUE])])
                ELSE UNCHANGED <<knownNodeIds, messageTimestamps, storeQueue>>
  /\ UNCHANGED <<links, masterKey, apiReturns, evaluated, lifecycle, vectorClock, db,
                 versionHistory, notifications, now, antiEntropy, putLog, drops, used>>

InitMalformed ==
  /\ InitNodes
  /\ links = Mesh({"n1", "n2"})

\* n1 writes A at p; its own messages to n2 stay in flight.
NextMalformed ==
  \/ LocalPut("n1", "p", "A", MaxPuts)
  \/ PutResolve("n1")
  \/ PutComplete("n1")
  \/ SendIncomplete
  \/ ReceiveIncomplete

SpecMalformed == InitMalformed /\ [][NextMalformed]_vars

\* C34: an inbound message that lacks a required field is dropped: the
\* step that takes it off the wire changes neither the store, the vector
\* clock, the known-node set nor the recent-set, starts no handlePut and
\* sends nothing.
IncompleteMessageDropped ==
  [][evaluated # NoCall /\ evaluated.message \in network /\ evaluated.message \notin network'
       => /\ UNCHANGED <<db, vectorClock, knownNodeIds, messageTimestamps, storeQueue>>
          /\ network' = network \ {evaluated.message}]_vars

\* C34: the put without origin was handled to the end: n1 stores its value
\* as a write of its own, has counted it in its clock and forwarded it.
IncompletePutApplied ==
  /\ evaluated # NoCall
  /\ evaluated.message.event = "put"
  /\ ~Has(evaluated.message.data, "origin")
  /\ get("n1", "q") = "B"
  /\ db["n1"]["q"].origin = "n1"
  /\ evaluated.message.data.msgId \in processedMessages("n1")
  /\ \E m \in network : m.from = "n1" /\ m.event = "put" /\ m.data.path = "q"

\* C35: a handlePut that got past the shutting-down check before close()
\* began completes its store write before close() closes the store: when
\* the store is closed no handlePut of the node is waiting for its read or
\* its write.
PutsCompleteBeforeStoreCloses ==
  [][\A n \in Node :
       lifecycle[n] = "closing" /\ lifecycle'[n] = "down" =>
         \A i \in DOMAIN storeQueue[n] : storeQueue[n][i].op \notin {"get", "put"}]_vars

\* C35: n1 was closed while its only put was between the store read and
\* the store write: the clock has counted the put, the store is closed and
\* holds nothing.
PutAbandonedByClose ==
  /\ lifecycle["n1"] = "down"
  /\ used.puts = 1
  /\ PutId("n1", 1) \in processedMessages("n1")
  /\ ClockGet(vectorClock["n1"], "n1") = 3
  /\ db["n1"] = EmptyFn

\* ------------------------------------------------------ ExecutionManager
\* The execution state of one node in full: isRunning, consecutiveRuns,
\* lastRunTime and backoffTime, with the number of run() calls that are
\* between markRunning and markCompleted (inProgress) and whether one of
\* them was forced.  backoffTime is a JavaScript number that the code
\* multiplies by 0.8: it is held in units of 1/BackoffScale ms, which keeps
\* every value the bounded runs produce exact.
MaxExecutions == 6
MaxWaits == 3
BackoffScale == 125
Delays == {500, 30000}

Ms(t) == t * BackoffScale

Min(a, b) == IF a <= b THEN a ELSE b

\* A canRun that does not look at isRunning.
canRunIgnoresRunning(em, force, t) ==
  [result |-> ~(Ms(t - em.lastRunTime) < em.backoffTime /\ ~force), em |-> em]

\* ExecutionManager.canRun(force, isScheduled): the result and the state
\* it leaves.
canRunAt(em, force, t) ==
  IF em.isRunning /\ ~force
    THEN [result |-> FALSE, em |-> [em EXCEPT !.consecutiveRuns = @ + 1]]
    ELSE [result |-> ~(Ms(t - em.lastRunTime) < em.backoffTime /\ ~force), em |-> em]

markRunning(em, t) ==
  [em EXCEPT !.isRunning = TRUE, !.lastRunTime = t, !.consecutiveRuns = 0]

\* A markCompleted that resets isRunning on success only.
markCompletedOnSuccessOnly(em, success, t) ==
  [em EXCEPT !.isRunning = IF success THEN FALSE ELSE @,
             !.backoffTime = IF success THEN Max(Ms(1000), (@ * 4) \div 5)
                             ELSE Min(Ms(30000), @ * 2)]

\* A markCompleted that doubles without the upper limit.
markCompletedUnlimited(em, success, t) ==
  [em EXCEPT !.isRunning = FALSE,
             !.backoffTime = IF success THEN Max(Ms(1000), (@ * 4) \div 5) ELSE @ * 2]

\* ExecutionManager.markCompleted(success).
markCompleted(em, success, t) ==
  LET timeSinceLastRun == t - em.lastRunTime
      reduced == IF Ms(timeSinceLastRun) > em.backoffTime * 5
                   THEN Max(Ms(1000), em.backoffTime \div 2)
                   ELSE em.backoffTime
  IN  [em EXCEPT !.isRunning = FALSE,
                 !.backoffTime = IF success THEN Max(Ms(1000), (reduced * 4) \div 5)
                                 ELSE Min(Ms(30000), em.backoffTime * 2)]

InitExecution ==
  /\ masterKey = [n \in Node |-> "none"]
  /\ lifecycle = [n \in Node |-> "up"]
  /\ vectorClock = [n \in Node |-> increment(EmptyFn, n)]
  /\ knownNodeIds = [n \in Node |-> {n}]
  /\ messageTimestamps = [n \in Node |-> EmptyFn]
  /\ db = [n \in Node |-> EmptyFn]
  /\ versionHistory = [n \in Node |-> [p \in Path |-> <<>>]]
  /\ notifications = [n \in Node |-> <<>>]
  /\ storeQueue = [n \in Node |-> <<>>]
  /\ links = Mesh({"n1", "n2"})
  /\ network = {}
  /\ now = TickMs
  /\ antiEntropy = [n \in Node |->
                      [isRunning |-> FALSE, consecutiveRuns |-> 0, lastRunTime |-> 0,
                       backoffTime |-> Ms(backoffTime), inProgress |-> 0,
                       forced |-> FALSE]]
  /\ putLog = EmptyFn
  /\ drops = {}
  /\ apiReturns = {}
  /\ evaluated = NoCall
  /\ used = [puts |-> 0, dups |-> 0, ticks |-> 0, restarts |-> 0, syncs |-> 0, runs |-> 0,
             limited |-> 0]

\* AntiEntropy.run(path, force) up to its first suspension: nothing while
\* shutting down or when canRun refuses; else markRunning, and without a
\* connected peer markCompleted(true) at once; with peers they become
\* known nodes and are sent the clock.
Run(n, force) ==
  /\ used.runs < MaxExecutions
  /\ lifecycle[n] # "down"
  /\ used' = [used EXCEPT !.runs = @ + 1]
  /\ LET can == canRunAt(antiEntropy[n], force, now)
         running == markRunning(can.em, now)
     IN  IF isShuttingDown(n)
           THEN UNCHANGED <<antiEntropy, knownNodeIds, network>>
         ELSE IF ~can.result
           THEN /\ antiEntropy' = [antiEntropy EXCEPT ![n] = can.em]
                /\ UNCHANGED <<knownNodeIds, network>>
         ELSE IF sockets(n) = {}
           THEN /\ antiEntropy' = [antiEntropy EXCEPT ![n] = markCompleted(running, TRUE, now)]
                /\ UNCHANGED <<knownNodeIds, network>>
         ELSE /\ antiEntropy' =
                   [antiEntropy EXCEPT ![n] =
                      [running EXCEPT !.inProgress = @ + 1, !.forced = @ \/ force]]
              /\ knownNodeIds' = [knownNodeIds EXCEPT ![n] = @ \cup sockets(n)]
              /\ network' = network \cup
                   {Message(m, n, "vector-clock-sync", SyncMessage(n, TRUE)) : m \in sockets(n)}
  /\ UNCHANGED <<links, masterKey, apiReturns, evaluated, lifecycle, vectorClock,
                 messageTimestamps, db, versionHistory, notifications, storeQueue, now,
                 putLog, drops>>

\* The rest of a run: the requests go to the peers that are still
\* connected and markCompleted(true) is called, or an exception reaches
\* the catch block and markCompleted(false) is called.
Finish(n, success) ==
  /\ antiEntropy[n].inProgress > 0
  /\ antiEntropy' =
       [antiEntropy EXCEPT ![n] =
          [markCompleted(@, success, now) EXCEPT !.inProgress = @ - 1]]
  /\ network' =
       IF success
         THEN network \cup
                {Message(m, n, "anti-entropy-request",
                         [requestId |-> [node |-> n, peer |-> m, seq |-> used.runs],
                          nodeId |-> n, vectorClock |-> vectorClock[n], path |-> ""]) :
                   m \in sockets(n)}
         ELSE network
  /\ UNCHANGED <<links, masterKey, apiReturns, evaluated, lifecycle, vectorClock,
                 knownNodeIds, messageTimestamps, db, versionHistory, notifications,
                 storeQueue, now, putLog, drops, used>>

\* Time passes.
Wait(ms) ==
  /\ used.ticks < MaxWaits
  /\ now' = now + ms
  /\ used' = [used EXCEPT !.ticks = @ + 1]
  /\ UNCHANGED <<links, masterKey, apiReturns, evaluated, lifecycle, vectorClock,
                 knownNodeIds, messageTimestamps, db, versionHistory, notifications,
                 storeQueue, network, antiEntropy, putLog, drops>>

\* n1 runs anti-entropy against n2; either of them may be closed.
NextExecution ==
  \/ \E force \in BOOLEAN : Run("n1", force)
  \/ \E success \in BOOLEAN : Finish("n1", success)
  \/ \E ms \in Delays : Wait(ms)
  \/ \E n \in {"n1", "n2"} : Close(n)

SpecExecution == InitExecution /\ [][NextExecution]_vars

\* A run, once started, goes on to markCompleted: between markRunning and
\* markCompleted run() waits for a 100 ms timer only.
SpecExecutionFair ==
  SpecExecution /\ WF_vars(\E success \in BOOLEAN : Finish("n1", success))

\* C36: without the force flag at most one anti-entropy run is in progress
\* on a node; a run requested without force while another is running, on
\* a node that is not shutting down, is skipped without a message to any
\* peer and counts one more consecutive skip.
SingleRun ==
  /\ [](~antiEntropy["n1"].forced => antiEntropy["n1"].inProgress <= 1)
  /\ [][Run("n1", FALSE) /\ antiEntropy["n1"].isRunning /\ ~isShuttingDown("n1") =>
          /\ network' = network
          /\ antiEntropy'["n1"].inProgress = antiEntropy["n1"].inProgress
          /\ antiEntropy'["n1"].consecutiveRuns = antiEntropy["n1"].consecutiveRuns + 1]_vars

\* C36 as stated, for every run requested without force while another is
\* running: skipped, no message, one more consecutive skip.
SkipAlwaysCounted ==
  [][Run("n1", FALSE) /\ antiEntropy["n1"].isRunning =>
       /\ network' = network
       /\ antiEntropy'["n1"].inProgress = antiEntropy["n1"].inProgress
       /\ antiEntropy'["n1"].consecutiveRuns = antiEntropy["n1"].consecutiveRuns + 1]_vars

\* C36: one run is in progress and two more were requested without force
\* and skipped.
SkippedTwice ==
  /\ antiEntropy["n1"].isRunning
  /\ ~antiEntropy["n1"].forced
  /\ antiEntropy["n1"].inProgress = 1
  /\ antiEntropy["n1"].consecutiveRuns = 2
  /\ used.runs = 3

\* C37: every anti-entropy run that enters Running returns to Idle:
\* isRunning is false again after success, after an exception, and at once
\* when no peer is connected.
RunReturnsToIdle ==
  /\ antiEntropy["n1"].isRunning ~> ~antiEntropy["n1"].isRunning
  /\ [][\A force \in BOOLEAN :
          (/\ Run("n1", force)
           /\ sockets("n1") = {}
           /\ ~isShuttingDown("n1")
           /\ force \/ ~antiEntropy["n1"].isRunning) => ~antiEntropy'["n1"].isRunning]_vars

\* C37: a run has failed and the node is idle again, with the backoff
\* doubled.
IdleAfterFailure ==
  /\ ~antiEntropy["n1"].isRunning
  /\ antiEntropy["n1"].inProgress = 0
  /\ used.runs = 1
  /\ antiEntropy["n1"].backoffTime = Ms(2000)

\* C38: the backoff stays within [1 s, 30 s]; a failed run sets it to
\* min(30 s, 2 x backoff) and no successful run increases it.
BackoffBounded ==
  /\ [](/\ antiEntropy["n1"].backoffTime >= Ms(1000)
        /\ antiEntropy["n1"].backoffTime <= Ms(30000))
  /\ [][/\ Finish("n1", FALSE) =>
             antiEntropy'["n1"].backoffTime =
               Min(Ms(30000), 2 * antiEntropy["n1"].backoffTime)
        /\ Finish("n1", TRUE) \/ Run("n1", FALSE) \/ Run("n1", TRUE) =>
             antiEntropy'["n1"].backoffTime <= antiEntropy["n1"].backoffTime]_vars

\* C38: after five failures the backoff has reached 30 s, and the sixth
\* run, a success, has brought it down to 24 s.
BackoffLimitReached ==
  /\ used.runs = MaxExecutions
  /\ antiEntropy["n1"].inProgress = 0
  /\ antiEntropy["n1"].backoffTime = Ms(24000)

\* ------------------------------------------------- one put, any topology
\* The clusters one put floods: a chain and a mesh of three peers, a ring
\* and a mesh of four.
Topologies == {Chain, Mesh(GossipNodes), Ring, Mesh(Node)}

InitFlood ==
  /\ InitNodes
  /\ links \in Topologies

\* One connected node puts once; no message is lost and the processed-message sweep
\* does not run: everything happens within the retention window.
NextFlood ==
  \/ \E n \in Node : sockets(n) # {} /\ LocalPut(n, "p", "A", MaxPutsSync)
  \/ \E n \in Node : PutResolve(n)
  \/ \E n \in Node : PutComplete(n)
  \/ DeliverPut

SpecFlood == InitFlood /\ [][NextFlood]_vars

\* Messages that were sent are delivered and the store serves what it was
\* asked.
SpecFloodFair ==
  /\ SpecFlood
  /\ WF_vars(DeliverPut)
  /\ WF_vars(\E n \in Node : PutResolve(n))
  /\ WF_vars(\E n \in Node : PutComplete(n))

\* Number of times node n has broadcast: handlePut notifies the
\* subscribers and then propagates, once per call that reaches its end.
Broadcasts(n) == Len(notifications[n])

\* C39: gossip terminates: every node broadcasts a put at most once (it
\* has broadcast no more often than puts were issued, and broadcasts only
\* while it is behind that number), and in the end no put is in flight
\* and no handlePut is waiting.
GossipTerminates ==
  /\ [](\A n \in Node : Broadcasts(n) <= Cardinality(DOMAIN putLog))
  /\ [][\A n \in Node :
          (\E m \in network' \ network : m.from = n) =>
            Broadcasts(n) < Cardinality(DOMAIN putLog)]_vars
  /\ <>[](network = {} /\ \A n \in Node : storeQueue[n] = <<>>)

\* C39: in the ring of four every node has broadcast the put of n1 once
\* and nothing is in flight.
FloodEnded ==
  /\ links = Ring
  /\ putLog # EmptyFn
  /\ \A n \in Node : Broadcasts(n) = 1 /\ get(n, "p") = "A"
  /\ network = {}

\* ---------------------------------------------------------- store failure
\* db.get rejects: handlePut leaves the try block for its catch, logs and
\* returns null; a caller that loops over a response goes on to its next
\* change.
GetFails(n) ==
  /\ storeQueue[n] # <<>>
  /\ Head(storeQueue[n]).op = "get"
  /\ lifecycle[n] # "down"
  /\ StartPuts(n, Tail(storeQueue[n]), Head(storeQueue[n]).rest)
  /\ UNCHANGED <<links, masterKey, apiReturns, evaluated, antiEntropy, lifecycle,
                 vectorClock, knownNodeIds, db, versionHistory, notifications, network,
                 now, putLog, drops, used>>

\* db.put rejects: the catch block again; nothing is stored, nobody is
\* notified and nothing is propagated.
PutFails(n) ==
  /\ storeQueue[n] # <<>>
  /\ Head(storeQueue[n]).op = "put"
  /\ lifecycle[n] # "down"
  /\ StartPuts(n, Tail(storeQueue[n]), Head(storeQueue[n]).rest)
  /\ UNCHANGED <<links, masterKey, apiReturns, evaluated, antiEntropy, lifecycle,
                 vectorClock, knownNodeIds, db, versionHistory, notifications, network,
                 now, putLog, drops, used>>

InitStoreFailure ==
  /\ InitNodes
  /\ links = Mesh({"n1", "n2"})

\* n2 writes p; its messages reach n1, possibly twice, and the store of n1
\* may fail.
NextStoreFailure ==
  \/ \E value \in Value : LocalPut("n2", "p", value, MaxPuts)
  \/ \E n \in {"n1", "n2"} : PutResolve(n)
  \/ \E n \in {"n1", "n2"} : PutComplete(n)
  \/ DeliverPut
  \/ Duplicate
  \/ GetFails("n1")
  \/ PutFails("n1")

SpecStoreFailure == InitStoreFailure /\ [][NextStoreFailure]_vars

\* C40: a handlePut whose store read or write fails leaves no trace: once
\* it has failed its message is not in the recent-set, so that a later
\* delivery of the same msgId is processed.
FailedPutLeavesNoTrace ==
  [][GetFails("n1") \/ PutFails("n1") =>
       Head(storeQueue["n1"]).data.msgId \notin DOMAIN messageTimestamps'["n1"]]_vars

\* C40: the store write of the only put failed at n1 and the message was
\* delivered again: n1 stores nothing, has merged the clock of n2, knows
\* n2, and has dropped the second delivery as a duplicate.
RedeliveryDroppedAfterFailure ==
  /\ used.puts = 1
  /\ db["n1"] = EmptyFn
  /\ storeQueue["n1"] = <<>>
  /\ ClockGet(vectorClock["n1"], "n2") > 0
  /\ "n2" \in knownNodeIds["n1"]
  /\ [node |-> "n1", msgId |-> PutId("n2", 1), reason |-> "duplicate"] \in drops
  /\ \A m \in network : m.to # "n1"

====
